---- MODULE Spec2Model ----
(***************************************************************************)
(* Verification model of the resumable crawl-and-enrich scripts.           *)
(*                                                                         *)
(*   Part A  LaTeXTemplateAgent.run and its collaborators (grok-latex.py): *)
(*           CheckpointManager, GitHubFetcher.discover_repos_stream,       *)
(*           _process_batch, DatabaseManager.batch_insert_or_update.       *)
(*   Part B  core_scrape with CheckpointManager (main.py).                 *)
(*   Part C  RateLimiter.check_and_wait with concurrent callers            *)
(*           (grok-latex.py).                                              *)
(*   Part D  CheckpointManager.save and load on any input (grok-latex.py). *)
(*   Part E  CheckpointManager.load on any file (main.py).                 *)
(*   Part F  GitHubFetcher.discover_repos_stream and _fetch_json           *)
(*           (grok-latex.py).                                              *)
(*   Part G  ThemeScraperAgent.run (grok-max.py).                          *)
(*   Part H  The enrichment tasks of _process_batch (grok-latex.py).       *)
(*   Part I  main, agent_process, GrokClient.chat_completion and           *)
(*           CostLogger (main.py).                                         *)
(*   Part J  MiniMaxClient.chat_completion (theme-scraper.py).             *)
(*   Part K  LaTeXTemplateAgent.download_templates (grok-latex.py).        *)
(*                                                                         *)
(* Each part has its own specification (SpecAgent, SpecScrape, SpecRate,   *)
(* SpecCkpt, SpecLoad, SpecDiscover, SpecTheme); the variables of the      *)
(* other parts stay at their initial values.                               *)
(***************************************************************************)
EXTENDS Integers, Sequences, FiniteSets, TLC

(***************************************************************************)
(* Part A: LaTeXTemplateAgent (grok-latex.py)                              *)
(***************************************************************************)

\* Config.DEFAULT_QUERIES, cut down to two queries.
queries == <<"q1", "q2">>

\* The search endpoint: for each query the result pages, in page order.
\* Pages hold three items here (per_page is 100 in the code) and a batch two
\* (BATCH_SIZE is 50 in the code), so a page is larger than a batch as in the
\* code.  "o/b" is returned by both queries.  "q3" is a query that is not
\* among the configured ones; its third page has no items.
SearchPages ==
    [q \in {"q1", "q2", "q3"} |->
        CASE q = "q1" -> << <<"o/a", "o/b", "o/c">>, <<"o/d">> >>
          [] q = "q2" -> << <<"o/b", "o/e">> >>
          [] OTHER -> << <<"o/a", "o/c">>, <<"o/d", "o/e">>, <<>>, <<"o/b">> >>]

Repos == {"o/a", "o/b", "o/c", "o/d", "o/e"}

\* Config.BATCH_SIZE (50 in the code, scaled).
BATCH_SIZE == 2

\* Config.MAX_REPOS (5000 in the code, scaled): run's max_repos default.
\* With two queries the per-query share is three, one less than the number
\* of results of "q1".
MAX_REPOS == 6

\* Number of times the process is started.
MaxRuns == 2

\* Number of content fetches that raise in one run of the process.
MaxFetchFail == 1

VARIABLES
    \* durable state
    ckpt,           \* Config.CHECKPOINT_FILE
    tempFile,       \* Config.TEMP_BATCH_FILE
    store,          \* the templates table: full_name -> processing_status
    \* configuration
    use_ai,         \* LaTeXAnalyzer.use_ai
    \* the running process
    pc,             \* position of run()
    ret,            \* continuation labels of the calls in progress
    shutdown_flag,
    processed,
    start_pages,
    q_idx,
    batch,
    current_page,
    stream,         \* the discover_repos_stream generator
    repo_info,      \* the item the generator yielded last
    entries,        \* _process_batch: valid_entries
    save_idx,       \* the query_idx argument of the save in progress
    \* history variables
    runNo,          \* number of times run() was started
    resumedAfterKill,
    stopIdx,        \* query index at which the loop was left early, or -1
    inflight,       \* ids of the batch that was being accumulated at shutdown
    killCkpt,       \* processed set of the checkpoint file at the last kill
    enriched,       \* ids handed to _process_batch by the current run
    done_ids,       \* ids of the batches _process_batch has returned for
                    \* in the current run
    fetch_failed,   \* those of done_ids whose content fetch raised
    disc            \* discovery of the current run: candidates yielded,
                    \* queries whose stream ended at its cap with results
                    \* left, whether a page request failed quietly,
                    \* whether one was answered 403, whether the run was
                    \* started with force_fresh, and the ids of the batch
                    \* whose Store write failed

agentDisk == <<ckpt, tempFile, store>>
agentMem == <<pc, ret, shutdown_flag, processed, start_pages, q_idx, batch,
              current_page, stream, repo_info, entries, save_idx>>
agentHist == <<runNo, resumedAfterKill, stopIdx, inflight, killCkpt,
               enriched, done_ids, fetch_failed, disc>>
agentVars == <<agentDisk, use_ai, agentMem, agentHist>>

\* State of part B (core_scrape, main.py).
VARIABLES
    cs_file,        \* checkpoint.json: st and processed_repos
    cs_raw,         \* full_names of the rows of the raw themes table
    cs_pc,          \* position of core_scrape
    cs_data,        \* CheckpointManager.data['processed_repos']
    cs_i,           \* index of the full_name the loop is at
    cs_all_repos,   \* all_repos
    cs_runs         \* number of times core_scrape was started

scrapeVars == <<cs_file, cs_raw, cs_pc, cs_data, cs_i, cs_all_repos, cs_runs>>

\* State of part C (RateLimiter).
VARIABLES
    rl_token,       \* "unset" before construction, then "token" or "anon"
    rl_remaining,
    rl_reset_timestamp,
    rl_call_count,
    rl_lock,        \* holder of self.lock, 0 when free
    rl_session,     \* self._session is not None
    rl_pc,          \* position of each caller's check_and_wait
    rl_depth,       \* nesting depth of each caller's check_and_wait calls
    rl_wait_sec,    \* wait_sec of the caller that sleeps
    api_remaining,  \* the real remaining quota
    api_reset,
    \* history variables
    rl_probe,       \* outcome of the probe of each caller's current call
    rl_slept,       \* the caller's current call was suspended
    rl_low_start,   \* the caller's current call began under low real quota,
                    \* which has stayed low since
    rl_low_calls    \* calls that ran wholly under low quota and returned
                    \* without a suspension since the last suspension

rateVars == <<rl_token, rl_remaining, rl_reset_timestamp, rl_call_count,
              rl_lock, rl_session, rl_pc, rl_depth, rl_wait_sec,
              api_remaining, api_reset, rl_probe, rl_slept, rl_low_start,
              rl_low_calls>>

\* State of part D (CheckpointManager.save and load on their own).
VARIABLES
    cp_file,        \* Config.CHECKPOINT_FILE
    cp_pc,          \* "idle", "saving" (file opened for writing), "saved", "loaded"
    cp_in,          \* the arguments of the last save
    cp_out          \* the result of the load that followed the last save

ckptVars == <<cp_file, cp_pc, cp_in, cp_out>>

\* State of part E (CheckpointManager.load of main.py on any file).
VARIABLES
    ld_file,        \* checkpoint.json as found on disk
    ld_pc,          \* "idle", "written" (a file is in place), "loaded"
    ld_out          \* what load did

loadVars == <<ld_file, ld_pc, ld_out>>

\* State of part F (discover_repos_stream and _fetch_json on their own).
VARIABLES
    ds_query,       \* the generator's query
    ds_start,       \* its start_page
    ds_cap,         \* its max_repos
    ds_g,           \* the generator
    ds_pc,          \* "idle", "running", "fetching", "ended", "raised"
    ds_yielded,     \* the items yielded so far, in order
    ds_clean,       \* every page request so far was answered with status 200
    fj_attempts,    \* attempts made by the current or last _fetch_json call
    fj_resp         \* the answer to its last attempt

discoverVars == <<ds_query, ds_start, ds_cap, ds_g, ds_pc, ds_yielded,
                  ds_clean, fj_attempts, fj_resp>>

\* State of part G (ThemeScraperAgent.run, grok-max.py).
VARIABLES
    tm_ckpt,        \* agent_checkpoint.json
    tm_store,       \* full_names of the rows of the themes table
    tm_pc,          \* position of run()
    tm_shutdown,    \* self.shutdown_flag
    tm_processed,
    tm_q_idx,
    tm_batch,
    tm_stream,      \* the discover_repos_stream generator
    tm_item,        \* the item the generator yielded last
    tm_runs,        \* number of times run() was started
    tm_result       \* how the last run ended: "none", "returned" or "raised"

themeVars == <<tm_ckpt, tm_store, tm_pc, tm_shutdown, tm_processed, tm_q_idx,
               tm_batch, tm_stream, tm_item, tm_runs, tm_result>>

\* State of part H (the enrichment tasks of _process_batch, grok-latex.py).
VARIABLES
    en_pc,          \* _process_batch: "idle" or "gather"
    en_task,        \* position of each fetch_tex_content task
    en_semaphore    \* value of self.semaphore

enrichVars == <<en_pc, en_task, en_semaphore>>

\* State of part I (the full pipeline of main.py).
VARIABLES
    ap_pc,          \* main: "idle", "scrape", "agent", "built" or "exited"
    ap_free,        \* config.FREE_MODE
    ap_round,       \* round_num
    ap_raw,         \* raw Store: processing_status of each row
    ap_enhanced,    \* enhanced Store: processing_status of each row
    total_cost,     \* cost_logger.total_cost
    ap_unprocessed, \* rows query_unprocessed gave the last agent_process
    ap_result,      \* how the last agent_process ended
    ap_over         \* whether a chat-completion request was issued while
                    \* total_cost exceeded the budget

pipelineVars == <<ap_pc, ap_free, ap_round, ap_raw, ap_enhanced, total_cost,
                  ap_unprocessed, ap_result, ap_over>>

\* State of part J (MiniMaxClient, theme-scraper.py).
VARIABLES
    mm_pc,          \* "none" (no client), "init_failed", "idle", "loop",
                    \* "returned" or "raised"
    mm_n,           \* len(self.api_keys)
    mm_current,     \* position of self.current_key in self.api_keys
    mm_header,      \* position of the key in headers
    mm_attempt,     \* the loop variable
    mm_last_error,  \* last_error
    mm_start,       \* position of the current key when the call began
    mm_sent         \* positions of the keys the requests of the call were
                    \* sent with, in order

minimaxVars == <<mm_pc, mm_n, mm_current, mm_header, mm_attempt,
                 mm_last_error, mm_start, mm_sent>>

\* State of part K (download_templates, grok-latex.py).
VARIABLES
    dl_store,       \* the templates table: the row of each repository
    dl_before,      \* the table when the last download_templates began
    dl_marked       \* repositories the last download_templates marked

downloadVars == <<dl_store, dl_before, dl_marked>>

\* What the actions of each part leave unchanged.
notAgent == <<scrapeVars, rateVars,
    ckptVars,
    loadVars,
    discoverVars,
    themeVars,
    enrichVars,
    pipelineVars,
    minimaxVars,
    downloadVars>>
notScrape == <<agentVars, rateVars,
    ckptVars,
    loadVars,
    discoverVars,
    themeVars,
    enrichVars,
    pipelineVars,
    minimaxVars,
    downloadVars>>
notRate == <<agentVars, scrapeVars,
    ckptVars,
    loadVars,
    discoverVars,
    themeVars,
    enrichVars,
    pipelineVars,
    minimaxVars,
    downloadVars>>
notCkpt == <<agentVars, scrapeVars, rateVars,
    loadVars,
    discoverVars,
    themeVars,
    enrichVars,
    pipelineVars,
    minimaxVars,
    downloadVars>>
notLoad == <<agentVars, scrapeVars, rateVars, ckptVars,
    discoverVars,
    themeVars,
    enrichVars,
    pipelineVars,
    minimaxVars,
    downloadVars>>
notDiscover == <<agentVars, scrapeVars, rateVars, ckptVars, loadVars,
    themeVars,
    enrichVars,
    pipelineVars,
    minimaxVars,
    downloadVars>>
notTheme == <<agentVars, scrapeVars, rateVars, ckptVars, loadVars,
    discoverVars,
    enrichVars,
    pipelineVars,
    minimaxVars,
    downloadVars>>
notEnrich == <<agentVars, scrapeVars, rateVars, ckptVars, loadVars,
    discoverVars, themeVars,
    pipelineVars,
    minimaxVars,
    downloadVars>>
notPipeline == <<agentVars, scrapeVars, rateVars, ckptVars, loadVars,
    discoverVars, themeVars, enrichVars,
    minimaxVars,
    downloadVars>>
notMinimax == <<agentVars, scrapeVars, rateVars, ckptVars, loadVars,
    discoverVars, themeVars, enrichVars, pipelineVars,
    downloadVars>>
notDownload == <<agentVars, scrapeVars, rateVars, ckptVars, loadVars,
    discoverVars, themeVars, enrichVars, pipelineVars, minimaxVars>>

QuerySet == {queries[i] : i \in 1..Len(queries)}

\* A dict query -> page; 0 stands for "no key".
EmptyPages == [q \in QuerySet |-> 0]

Range(s) == {s[i] : i \in 1..Len(s)}

\* Python's start_pages.get(query, 1).
StartPage(sp, q) == IF sp[q] = 0 THEN 1 ELSE sp[q]

\* One page of the search endpoint; a page past the last one has no items.
Search(q, p) ==
    IF p \in 1..Len(SearchPages[q]) THEN SearchPages[q][p] ELSE <<>>

\* File contents.  st is "missing", "partial" (opened for writing, not yet
\* fully written) or "ok".  The checkpoint file holds JSON: 'processed' is a
\* list, 'start_pages' an object, written here as the set of its
\* <<key, value>> members, 'query_idx' a number.
MissingCkpt ==
    [st |-> "missing", processed |-> <<>>, start_pages |-> {},
     query_idx |-> 0]
MissingTemp == [st |-> "missing", batch |-> <<>>]

\* The order in which list(processed) enumerates a set in the agent's process.
RepoOrder == <<"o/a", "o/b", "o/c", "o/d", "o/e">>

\* list(processed)
ListOf(S) == SelectSeq(RepoOrder, LAMBDA r : r \in S)

\* CheckpointManager.save: the data dict as json.dump writes it, given the
\* list made of the processed set.
CheckpointData(processed_list, sp, query_idx) ==
    [st |-> "ok",
     processed |-> processed_list,
     start_pages |-> {<<q, sp[q]>> : q \in {k \in QuerySet : sp[k] # 0}},
     query_idx |-> query_idx]

\* Variant of CheckpointLoad that does not read 'start_pages' back.
CheckpointLoad_NoPages(f) ==
    IF f.st = "ok"
    THEN [processed |-> Range(f.processed), start_pages |-> EmptyPages,
          query_idx |-> f.query_idx]
    ELSE [processed |-> {}, start_pages |-> EmptyPages, query_idx |-> 0]

\* CheckpointManager.load: json.load, then set(data.get('processed', [])),
\* data.get('start_pages', {}) and data.get('query_idx', 0); a missing file or
\* one that json.load rejects gives the empty state.
CheckpointLoad(f) ==
    IF f.st = "ok"
    THEN [processed |-> Range(f.processed),
          start_pages |->
              [q \in QuerySet |->
                  IF \E m \in f.start_pages : m[1] = q
                  THEN (CHOOSE m \in f.start_pages : m[1] = q)[2]
                  ELSE 0],
          query_idx |-> f.query_idx]
    ELSE [processed |-> {}, start_pages |-> EmptyPages, query_idx |-> 0]

\* CheckpointManager.load_batch_progress
LoadBatchProgress(f) == IF f.st = "ok" THEN f.batch ELSE <<>>

FreshState == [processed |-> {}, start_pages |-> EmptyPages, query_idx |-> 0]
NoStream == [page |-> 0, idx |-> 0, items |-> <<>>, fetched |-> 0]
NoDisc == [yielded |-> 0, capped |-> {}, quiet |-> FALSE, limited |-> FALSE,
           fresh |-> FALSE, write_failed |-> {}]



Running == pc \notin {"idle", "done", "dead"}

\* LaTeXTemplateAgent.run, up to the main loop: the process is started (for
\* the first time, after a normal return or after a kill) and loads or
\* initialises the checkpoint.
Start(resume, force_fresh) ==
    /\ pc \in {"idle", "done", "dead"}
    /\ runNo < MaxRuns
    /\ LET loaded == IF force_fresh \/ ~resume
                     THEN FreshState
                     ELSE CheckpointLoad(ckpt)
       IN /\ processed' = loaded.processed
          /\ start_pages' = loaded.start_pages
          /\ q_idx' = loaded.query_idx
    /\ pc' = "q_head"
    /\ ret' = <<>>
    /\ shutdown_flag' = FALSE
    /\ batch' = <<>>
    /\ current_page' = 0
    /\ stream' = NoStream
    /\ repo_info' = ""
    /\ entries' = <<>>
    /\ save_idx' = 0
    /\ runNo' = runNo + 1
    /\ resumedAfterKill' = (pc = "dead" /\ resume /\ ~force_fresh)
    /\ stopIdx' = -1
    /\ inflight' = {}
    /\ enriched' = {}
    /\ done_ids' = {}
    /\ fetch_failed' = {}
    /\ disc' = [NoDisc EXCEPT !.fresh = force_fresh]
    /\ UNCHANGED <<agentDisk, use_ai, killCkpt>>
    /\ UNCHANGED notAgent

\* run: head of "for q_idx in range(query_idx, len(queries))", the shutdown
\* test and the set-up of the query's stream and batch.
QueryHead ==
    /\ pc = "q_head"
    /\ IF q_idx >= Len(queries)
       THEN /\ pc' = "finally"
            /\ UNCHANGED <<batch, current_page, stream, stopIdx>>
       ELSE IF shutdown_flag
       THEN /\ pc' = "finally"
            /\ stopIdx' = IF stopIdx = -1 THEN q_idx ELSE stopIdx
            /\ UNCHANGED <<batch, current_page, stream>>
       ELSE LET query == queries[q_idx + 1]
                start_page == StartPage(start_pages, query)
            IN /\ stream' = [page |-> start_page, idx |-> 0,
                             items |-> <<>>, fetched |-> 0]
               /\ batch' = LoadBatchProgress(tempFile)
               /\ current_page' = start_page
               /\ pc' = "next"
               /\ UNCHANGED stopIdx
    /\ UNCHANGED <<agentDisk, use_ai, ret, shutdown_flag, processed,
                   start_pages, q_idx, repo_info, entries, save_idx,
                   runNo, resumedAfterKill, inflight, killCkpt, enriched,
                   done_ids, fetch_failed>>
    /\ UNCHANGED disc
    /\ UNCHANGED notAgent

\* The per-query cap handed to discover_repos_stream.
StreamCap == MAX_REPOS \div Len(queries)

\* Variant of StreamStep in which the cap is tested with > instead of >=.
StreamStep_CapOffByOne(g, q, cap, o) ==
    LET n1 == g.fetched + (IF g.idx >= 1 THEN 1 ELSE 0)
        i1 == g.idx + 1
    IN IF i1 <= Len(g.items)
       THEN IF n1 > cap
            THEN [kind |-> "end", item |-> "", g |-> g]
            ELSE [kind |-> "yield", item |-> g.items[i1],
                  g |-> [g EXCEPT !.idx = i1, !.fetched = n1]]
       ELSE LET p1 == IF g.items # <<>> THEN g.page + 1 ELSE g.page
            IN IF n1 > cap
               THEN [kind |-> "end", item |-> "", g |-> g]
               ELSE IF o = "raise"
               THEN [kind |-> "raise", item |-> "", g |-> g]
               ELSE LET its == IF o = "ok" THEN Search(q, p1) ELSE <<>>
                    IN IF its = <<>>
                       THEN [kind |-> "end", item |-> "", g |-> g]
                       ELSE [kind |-> "yield", item |-> its[1],
                             g |-> [page |-> p1, idx |-> 1, items |-> its,
                                    fetched |-> n1]]

\* GitHubFetcher.discover_repos_stream, one resumption of the generator.
\* g is the generator's state, q its query, cap its max_repos and o the
\* outcome of _fetch_json should a page be requested: "ok" (200), "empty"
\* (404, timeout or client error: {} is returned) or "raise" (403 or any other
\* status).  The result says what the consumer sees.
StreamStep(g, q, cap, o) ==
    LET n1 == g.fetched + (IF g.idx >= 1 THEN 1 ELSE 0)
        i1 == g.idx + 1
    IN IF i1 <= Len(g.items)
       THEN IF n1 >= cap
            THEN [kind |-> "end", item |-> "", g |-> g]
            ELSE [kind |-> "yield", item |-> g.items[i1],
                  g |-> [g EXCEPT !.idx = i1, !.fetched = n1]]
       ELSE LET p1 == IF g.items # <<>> THEN g.page + 1 ELSE g.page
            IN IF n1 >= cap
               THEN [kind |-> "end", item |-> "", g |-> g]
               ELSE IF o = "raise"
               THEN [kind |-> "raise", item |-> "", g |-> g]
               ELSE LET its == IF o = "ok" THEN Search(q, p1) ELSE <<>>
                    IN IF its = <<>>
                       THEN [kind |-> "end", item |-> "", g |-> g]
                       ELSE [kind |-> "yield", item |-> its[1],
                             g |-> [page |-> p1, idx |-> 1, items |-> its,
                                    fetched |-> n1]]

FetchOutcomes == {"ok", "empty", "raise"}

\* discover_repos_stream: the resumption of generator g requests a page (the
\* page in hand is used up and the cap is not reached).
StreamFetches(g, cap) ==
    /\ g.idx + 1 > Len(g.items)
    /\ g.fetched + (IF g.idx >= 1 THEN 1 ELSE 0) < cap

\* The search endpoint has results of query q beyond those generator g has
\* yielded.
MoreResults(g, q) ==
    IF g.idx + 1 <= Len(g.items) THEN TRUE
    ELSE Search(q, IF g.items # <<>> THEN g.page + 1 ELSE g.page) # <<>>

\* stop_after_attempt(3) of the retry decorator.
RetryAttempts == 3

\* What one HTTP request can come to: a status, a timeout or a client error
\* (connection reset, DNS failure, ...).
Responses == {"200", "403", "404", "500", "timeout", "client_error"}

\* The transient failures.
Transient == {"timeout", "client_error"}

\* The body of _fetch_json for one request: it returns the JSON (200) or {}
\* (404, and the two except clauses for TimeoutError and ClientError), or
\* raises RateLimitError (403) or GitHubAPIError (any other status).
FetchBody(resp) ==
    CASE resp = "200" -> [kind |-> "return", value |-> "json", exc |-> ""]
      [] resp = "403" -> [kind |-> "raise", value |-> "",
                          exc |-> "RateLimitError"]
      [] resp = "404" -> [kind |-> "return", value |-> "{}", exc |-> ""]
      [] resp \in Transient ->
                         [kind |-> "return", value |-> "{}", exc |-> ""]
      [] OTHER -> [kind |-> "raise", value |-> "", exc |-> "GitHubAPIError"]

\* The retry decorator: the body is called again when it raised an
\* aiohttp.ClientError or asyncio.TimeoutError and fewer than three attempts
\* were made.
RetryAgain(out, attempts) ==
    /\ out.kind = "raise"
    /\ out.exc \in {"ClientError", "TimeoutError"}
    /\ attempts < RetryAttempts

\* What the caller of _fetch_json gets, in the terms of StreamStep.
FetchOutcome(out) ==
    IF out.kind = "raise" THEN "raise"
    ELSE IF out.value = "json" THEN "ok" ELSE "empty"

\* run: "async for repo_info in stream" asks the generator for the next item.
\* An exception of the page request leaves the loop through "except Exception".
StreamNext ==
    /\ pc = "next"
    /\ \E resp \in Responses :
        LET o == FetchOutcome(FetchBody(resp))
            r == StreamStep(stream, queries[q_idx + 1], StreamCap, o)
        IN /\ stream' = r.g
           /\ repo_info' = r.item
           /\ pc' = CASE r.kind = "yield" -> "got_item"
                      [] r.kind = "end" -> "after_stream"
                      [] OTHER -> "finally"
           /\ stopIdx' = IF r.kind = "raise" /\ stopIdx = -1
                         THEN q_idx ELSE stopIdx
           /\ disc' =
                [yielded |-> disc.yielded + (IF r.kind = "yield" THEN 1 ELSE 0),
                 capped |->
                    IF /\ r.kind = "end"
                       /\ ~StreamFetches(stream, StreamCap)
                       /\ MoreResults(stream, queries[q_idx + 1])
                    THEN disc.capped \cup {queries[q_idx + 1]}
                    ELSE disc.capped,
                 quiet |-> disc.quiet \/ (StreamFetches(stream, StreamCap)
                                            /\ o = "empty"),
                 limited |-> disc.limited \/ (StreamFetches(stream, StreamCap)
                                                /\ resp = "403"),
                 fresh |-> disc.fresh,
                 write_failed |-> disc.write_failed]
    /\ UNCHANGED <<agentDisk, use_ai, ret, shutdown_flag, processed,
                   start_pages, q_idx, batch, current_page, entries,
                   save_idx, runNo, resumedAfterKill, inflight, killCkpt,
                   enriched, done_ids, fetch_failed>>
    /\ UNCHANGED notAgent

\* run: body of the "async for" for one yielded item.
GotItem ==
    /\ pc = "got_item"
    /\ IF shutdown_flag
       THEN /\ pc' = "sbp_open"
            /\ ret' = <<"sd_ckpt">>
            /\ inflight' = inflight \cup Range(batch)
            /\ stopIdx' = IF stopIdx = -1 THEN q_idx ELSE stopIdx
            /\ UNCHANGED batch
       ELSE IF repo_info \in processed
       THEN /\ pc' = "next"
            /\ UNCHANGED <<ret, batch, inflight, stopIdx>>
       ELSE /\ batch' = Append(batch, repo_info)
            /\ IF Len(batch') >= BATCH_SIZE
               THEN /\ pc' = "sbp_open"
                    /\ ret' = <<"pb_fetch", "post_full">>
               ELSE /\ pc' = "next"
                    /\ UNCHANGED ret
            /\ UNCHANGED <<inflight, stopIdx>>
    /\ UNCHANGED <<agentDisk, use_ai, shutdown_flag, processed, start_pages,
                   q_idx, current_page, stream, repo_info, entries, save_idx,
                   runNo, resumedAfterKill, killCkpt, enriched, done_ids,
                   fetch_failed>>
    /\ UNCHANGED disc
    /\ UNCHANGED notAgent

\* CheckpointManager.save_batch_progress: open(temp_batch_file, 'w')
\* truncates the file ...
SaveBatchProgressOpen ==
    /\ pc = "sbp_open"
    /\ tempFile' = [st |-> "partial", batch |-> <<>>]
    /\ pc' = "sbp_dump"
    /\ UNCHANGED <<ckpt, store, use_ai, ret, shutdown_flag, processed,
                   start_pages, q_idx, batch, current_page, stream,
                   repo_info, entries, save_idx, agentHist>>
    /\ UNCHANGED notAgent

\* ... and json.dump writes the batch.
SaveBatchProgressDump ==
    /\ pc = "sbp_dump"
    /\ tempFile' = [st |-> "ok", batch |-> batch]
    /\ pc' = Head(ret)
    /\ ret' = Tail(ret)
    /\ UNCHANGED <<ckpt, store, use_ai, shutdown_flag, processed,
                   start_pages, q_idx, batch, current_page, stream,
                   repo_info, entries, save_idx, agentHist>>
    /\ UNCHANGED notAgent

\* run: the shutdown branch of the "async for": _save_checkpoint(..., q_idx),
\* then break.
ShutdownSave ==
    /\ pc = "sd_ckpt"
    /\ save_idx' = q_idx
    /\ pc' = "save_open"
    /\ ret' = <<"after_stream">>
    /\ UNCHANGED <<agentDisk, use_ai, shutdown_flag, processed, start_pages,
                   q_idx, batch, current_page, stream, repo_info, entries,
                   agentHist>>
    /\ UNCHANGED notAgent

\* CheckpointManager.save: open(checkpoint_file, 'w') truncates the file ...
CheckpointSaveOpen ==
    /\ pc = "save_open"
    /\ ckpt' = [st |-> "partial", processed |-> <<>>,
                start_pages |-> {}, query_idx |-> 0]
    /\ pc' = "save_dump"
    /\ UNCHANGED <<tempFile, store, use_ai, ret, shutdown_flag, processed,
                   start_pages, q_idx, batch, current_page, stream,
                   repo_info, entries, save_idx, agentHist>>
    /\ UNCHANGED notAgent

\* ... and json.dump writes processed, start_pages and query_idx.
CheckpointSaveDump ==
    /\ pc = "save_dump"
    /\ ckpt' = CheckpointData(ListOf(processed), start_pages, save_idx)
    /\ pc' = Head(ret)
    /\ ret' = Tail(ret)
    /\ UNCHANGED <<tempFile, store, use_ai, shutdown_flag, processed,
                   start_pages, q_idx, batch, current_page, stream,
                   repo_info, entries, save_idx, agentHist>>
    /\ UNCHANGED notAgent


\* run: after the "async for": the remaining batch is processed unless a
\* shutdown was requested; otherwise the for loop moves to the next query.
AfterStream ==
    /\ pc = "after_stream"
    /\ IF batch # <<>> /\ ~shutdown_flag
       THEN /\ pc' = "sbp_open"
            /\ ret' = <<"pb_fetch", "post_rest">>
            /\ UNCHANGED <<q_idx, inflight, stopIdx>>
       ELSE /\ pc' = "q_head"
            /\ q_idx' = q_idx + 1
            /\ inflight' = IF shutdown_flag THEN inflight \cup Range(batch)
                           ELSE inflight
            /\ stopIdx' = IF shutdown_flag /\ stopIdx = -1 THEN q_idx
                          ELSE stopIdx
            /\ UNCHANGED ret
    /\ UNCHANGED <<agentDisk, use_ai, shutdown_flag, processed, start_pages,
                   batch, current_page, stream, repo_info, entries, save_idx,
                   runNo, resumedAfterKill, killCkpt, enriched, done_ids,
                   fetch_failed>>
    /\ UNCHANGED disc
    /\ UNCHANGED notAgent

\* What the repositories hold: a .tex file that parse_tex finds valid, one it
\* finds invalid, or no .tex file at the top level.
RepoContent ==
    [r \in Repos |->
        CASE r \in {"o/a", "o/e"} -> "valid_tex"
          [] r = "o/b" -> "invalid_tex"
          [] OTHER -> "no_tex"]

\* _process_batch: fetch_tex_content for one repo_info followed by the parse
\* step: the entry that reaches categorisation.  failed says that a request
\* raised (403 or another status), which the except clause turns into a
\* processing_errors note; a 404 or a timeout of the listing gives {} and so
\* the same entry as a repository without a .tex file.  Every case returns
\* the repo_info.
FetchTexContent(full_name, failed) ==
    LET o == IF failed THEN "error" ELSE RepoContent[full_name]
    IN [full_name |-> full_name,
        named |-> TRUE,
        main_tex |-> o \in {"valid_tex", "invalid_tex"},
        is_valid |-> (o = "valid_tex"),
        has_ats |-> FALSE,
        fetch_error |-> (o = "error"),
        processing_status |->
            IF o \in {"valid_tex", "invalid_tex"} THEN "" ELSE "error_no_tex"]

\* Variant of GatherEntries in which an entry whose fetch raised is dropped
\* from the gathered list.
GatherEntries_DropFailed(b, failed) ==
    LET kept == SelectSeq([i \in 1..Len(b) |-> i], LAMBDA i : i \notin failed)
    IN [k \in 1..Len(kept) |-> FetchTexContent(b[kept[k]], FALSE)]

\* _process_batch: the entries gathered for a batch, in batch order; the
\* "filter out exceptions" loop keeps them all since fetch_tex_content
\* catches every Exception.  failed is the set of positions whose fetch raised.
GatherEntries(b, failed) ==
    [i \in 1..Len(b) |-> FetchTexContent(b[i], i \in failed)]

\* _process_batch: enrichment of the batch.
ProcessBatchFetch ==
    /\ pc = "pb_fetch"
    /\ \E failed \in SUBSET (1..Len(batch)) :
        /\ Cardinality(failed) + Cardinality(fetch_failed) <= MaxFetchFail
        /\ entries' = GatherEntries(batch, failed)
    /\ enriched' = enriched \cup Range(batch)
    /\ pc' = "pb_classify"
    /\ UNCHANGED <<agentDisk, use_ai, ret, shutdown_flag, processed,
                   start_pages, q_idx, batch, current_page, stream,
                   repo_info, save_idx, runNo, resumedAfterKill, stopIdx,
                   inflight, killCkpt, done_ids, fetch_failed>>
    /\ UNCHANGED disc
    /\ UNCHANGED notAgent

\* LaTeXAnalyzer._heuristic_categorize returns a fresh dict with category,
\* ai_description, ai_features and ai_use_case only.
HeuristicDict ==
    [full_name |-> "", named |-> FALSE, main_tex |-> FALSE,
     is_valid |-> FALSE, has_ats |-> FALSE, fetch_error |-> FALSE,
     processing_status |-> ""]

\* LaTeXAnalyzer.ai_categorize_batch: on success the entries are updated in
\* place and returned (an answer with fewer JSON objects than entries updates
\* the first ones only); when the call raises, the list of the heuristic dicts
\* is returned in their place.
AiCategorizeBatch(es, ai_ok) ==
    IF ai_ok THEN es ELSE [i \in 1..Len(es) |-> HeuristicDict]

\* _process_batch, "Update processing status": ats_score is read with
\* default 0; it is set by _validate_entry only, after this point.
StatusOf(e) ==
    IF e.is_valid /\ (IF e.has_ats THEN 5 ELSE 0) >= 5
    THEN "scraped_valid" ELSE "scraped_invalid"

\* _process_batch: categorisation (AI or heuristic) and the status update.
ProcessBatchClassify ==
    /\ pc = "pb_classify"
    /\ \E ai_ok \in BOOLEAN :
        LET cat == IF use_ai THEN AiCategorizeBatch(entries, ai_ok)
                   ELSE entries
        IN entries' = [i \in 1..Len(cat) |->
                          [cat[i] EXCEPT !.processing_status = StatusOf(cat[i])]]
    /\ pc' = "pb_persist"
    /\ UNCHANGED <<agentDisk, use_ai, ret, shutdown_flag, processed,
                   start_pages, q_idx, batch, current_page, stream,
                   repo_info, save_idx, agentHist>>
    /\ UNCHANGED notAgent

\* DatabaseManager.batch_insert_or_update: INSERT OR REPLACE of every entry in
\* one transaction; entry['full_name'] raises KeyError for an entry without
\* that key, and any exception rolls the transaction back.
BatchInsertOrUpdate(db, es, db_ok) ==
    IF db_ok /\ \A i \in 1..Len(es) : es[i].named
    THEN [ok |-> TRUE,
          db |-> [r \in Repos |->
                    IF \E i \in 1..Len(es) : es[i].full_name = r
                    THEN LET last == CHOOSE i \in 1..Len(es) :
                                        /\ es[i].full_name = r
                                        /\ \A j \in (i+1)..Len(es) :
                                              es[j].full_name # r
                         IN es[last].processing_status
                    ELSE db[r]]]
    ELSE [ok |-> FALSE, db |-> db]

\* ProcessBatchPersist without the "Update processed set" loop.
ProcessBatchPersist_NoProcessedUpdate ==
    /\ pc = "pb_persist"
    /\ \E db_ok \in BOOLEAN :
        LET r == BatchInsertOrUpdate(store, entries, db_ok)
        IN IF r.ok
           THEN /\ store' = r.db
                /\ processed' = processed
                /\ done_ids' = done_ids \cup Range(batch)
                /\ fetch_failed' = fetch_failed \cup
                      {entries[i].full_name :
                          i \in {j \in 1..Len(entries) : entries[j].fetch_error}}
                /\ pc' = Head(ret)
                /\ ret' = Tail(ret)
                /\ UNCHANGED <<stopIdx, disc>>
           ELSE /\ pc' = "finally"
                /\ ret' = <<>>
                /\ stopIdx' = IF stopIdx = -1 THEN q_idx ELSE stopIdx
                /\ disc' = [disc EXCEPT !.write_failed = Range(batch)]
                /\ UNCHANGED <<store, processed, done_ids, fetch_failed>>
    /\ entries' = <<>>
    /\ UNCHANGED <<ckpt, tempFile, use_ai, shutdown_flag, start_pages, q_idx,
                   batch, current_page, stream, repo_info, save_idx, runNo,
                   resumedAfterKill, inflight, killCkpt, enriched>>
    /\ UNCHANGED notAgent

\* _process_batch: "Save to database" and "Update processed set", then the
\* return to run; a DatabaseError leaves run's loop through "except Exception".
ProcessBatchPersist ==
    /\ pc = "pb_persist"
    /\ \E db_ok \in BOOLEAN :
        LET r == BatchInsertOrUpdate(store, entries, db_ok)
        IN IF r.ok
           THEN /\ store' = r.db
                /\ processed' = processed \cup
                                  {entries[i].full_name : i \in 1..Len(entries)}
                /\ done_ids' = done_ids \cup Range(batch)
                /\ fetch_failed' = fetch_failed \cup
                      {entries[i].full_name :
                          i \in {j \in 1..Len(entries) : entries[j].fetch_error}}
                /\ pc' = Head(ret)
                /\ ret' = Tail(ret)
                /\ UNCHANGED <<stopIdx, disc>>
           ELSE /\ pc' = "finally"
                /\ ret' = <<>>
                /\ stopIdx' = IF stopIdx = -1 THEN q_idx ELSE stopIdx
                /\ disc' = [disc EXCEPT !.write_failed = Range(batch)]
                /\ UNCHANGED <<store, processed, done_ids, fetch_failed>>
    /\ entries' = <<>>
    /\ UNCHANGED <<ckpt, tempFile, use_ai, shutdown_flag, start_pages, q_idx,
                   batch, current_page, stream, repo_info, save_idx, runNo,
                   resumedAfterKill, inflight, killCkpt, enriched>>
    /\ UNCHANGED notAgent

\* run: after _process_batch of a full batch: the batch is emptied, the page
\* counter advanced and the checkpoint saved with the current query index.
PostFull ==
    /\ pc = "post_full"
    /\ batch' = <<>>
    /\ current_page' = current_page + 1
    /\ start_pages' = [start_pages EXCEPT ![queries[q_idx + 1]] = current_page + 1]
    /\ save_idx' = q_idx
    /\ pc' = "save_open"
    /\ ret' = <<"next">>
    /\ UNCHANGED <<agentDisk, use_ai, shutdown_flag, processed, q_idx,
                   stream, repo_info, entries, agentHist>>
    /\ UNCHANGED notAgent

\* run: after _process_batch of the remaining batch of a query.
PostRest ==
    /\ pc = "post_rest"
    /\ start_pages' = [start_pages EXCEPT ![queries[q_idx + 1]] = current_page]
    /\ save_idx' = q_idx
    /\ pc' = "save_open"
    /\ ret' = <<"q_incr">>
    /\ UNCHANGED <<agentDisk, use_ai, shutdown_flag, processed, q_idx, batch,
                   current_page, stream, repo_info, entries, agentHist>>
    /\ UNCHANGED notAgent

\* run: the for loop takes the next query index.
QueryIncr ==
    /\ pc = "q_incr"
    /\ q_idx' = q_idx + 1
    /\ pc' = "q_head"
    /\ UNCHANGED <<agentDisk, use_ai, ret, shutdown_flag, processed,
                   start_pages, batch, current_page, stream, repo_info,
                   entries, save_idx, agentHist>>
    /\ UNCHANGED notAgent

\* run: the finally block saves the checkpoint with query index len(queries).
Finally ==
    /\ pc = "finally"
    /\ save_idx' = Len(queries)
    /\ pc' = "save_open"
    /\ ret' = <<"cleanup">>
    /\ UNCHANGED <<agentDisk, use_ai, shutdown_flag, processed, start_pages,
                   q_idx, batch, current_page, stream, repo_info, entries,
                   agentHist>>
    /\ UNCHANGED notAgent

\* CheckpointManager.cleanup removes the temp batch file; run returns.
Cleanup ==
    /\ pc = "cleanup"
    /\ tempFile' = MissingTemp
    /\ pc' = "done"
    /\ UNCHANGED <<ckpt, store, use_ai, ret, shutdown_flag, processed,
                   start_pages, q_idx, batch, current_page, stream,
                   repo_info, entries, save_idx, agentHist>>
    /\ UNCHANGED notAgent

\* _setup_signal_handlers: SIGINT or SIGTERM sets the flag.
Signal ==
    /\ Running
    /\ ~shutdown_flag
    /\ shutdown_flag' = TRUE
    /\ UNCHANGED <<agentDisk, use_ai, pc, ret, processed, start_pages, q_idx,
                   batch, current_page, stream, repo_info, entries, save_idx,
                   agentHist>>
    /\ UNCHANGED notAgent

\* The process is killed: memory is lost, the files and the table stay.
Kill ==
    /\ Running
    /\ pc' = "dead"
    /\ ret' = <<>>
    /\ shutdown_flag' = FALSE
    /\ processed' = {}
    /\ start_pages' = EmptyPages
    /\ q_idx' = 0
    /\ batch' = <<>>
    /\ current_page' = 0
    /\ stream' = NoStream
    /\ repo_info' = ""
    /\ entries' = <<>>
    /\ save_idx' = 0
    /\ resumedAfterKill' = FALSE
    /\ stopIdx' = -1
    /\ inflight' = {}
    /\ enriched' = {}
    /\ done_ids' = {}
    /\ fetch_failed' = {}
    /\ disc' = NoDisc
    /\ killCkpt' = CheckpointLoad(ckpt).processed
    /\ UNCHANGED <<agentDisk, use_ai, runNo>>
    /\ UNCHANGED notAgent


(***************************************************************************)
(* Part B: core_scrape with a CheckpointManager (main.py)                  *)
(***************************************************************************)

\* The full_names loaded from the input file (all valid, within max_repos).
full_names == <<"u/a", "u/b", "u/c", "u/d">>

\* Config.BATCH_SIZE of main.py (30 in the code, scaled).
CS_BATCH_SIZE == 2

\* Number of times the scraping process is started.
MaxScrapes == 2



\* CheckpointManager.load of main.py: a missing file or one that is not valid
\* JSON gives the fresh state.
CsLoad(f) == IF f.st = "ok" THEN f.processed_repos ELSE {}

\* main with --resume: CheckpointManager() loads the file, core_scrape starts.
CsStart ==
    /\ cs_pc \in {"idle", "done", "dead"}
    /\ cs_runs < MaxScrapes
    /\ cs_data' = CsLoad(cs_file)
    /\ cs_i' = 1
    /\ cs_all_repos' = <<>>
    /\ cs_pc' = "loop"
    /\ cs_runs' = cs_runs + 1
    /\ UNCHANGED <<cs_file, cs_raw>>
    /\ UNCHANGED notScrape

\* core_scrape: one turn of "for full_name in full_names": an already
\* processed name is skipped; otherwise fetch_repo_info returns the repository
\* ("ok"), returns {} ("empty") or raises after its retries ("raise"), which
\* ends core_scrape before the table is written.
CsLoopStep ==
    /\ cs_pc = "loop"
    /\ cs_i <= Len(full_names)
    /\ IF full_names[cs_i] \in cs_data
       THEN /\ cs_i' = cs_i + 1
            /\ UNCHANGED <<cs_pc, cs_all_repos>>
       ELSE \E o \in {"ok", "empty", "raise"} :
              CASE o = "ok" ->
                     /\ cs_all_repos' = Append(cs_all_repos, full_names[cs_i])
                     /\ cs_pc' = "mark"
                     /\ UNCHANGED cs_i
                [] o = "empty" ->
                     /\ cs_i' = cs_i + 1
                     /\ UNCHANGED <<cs_pc, cs_all_repos>>
                [] OTHER ->
                     /\ cs_pc' = "dead"
                     /\ UNCHANGED <<cs_i, cs_all_repos>>
    /\ UNCHANGED <<cs_file, cs_raw, cs_data, cs_runs>>
    /\ UNCHANGED notScrape

\* CheckpointManager.mark_processed: the name is added to the set and save()
\* opens the file for writing, which truncates it ...
CsMarkProcessed ==
    /\ cs_pc = "mark"
    /\ cs_data' = cs_data \cup {full_names[cs_i]}
    /\ cs_file' = [st |-> "partial", processed_repos |-> {}]
    /\ cs_pc' = "mark_dump"
    /\ UNCHANGED <<cs_raw, cs_i, cs_all_repos, cs_runs>>
    /\ UNCHANGED notScrape

\* ... and json.dump writes the whole set.
CsSaveDump ==
    /\ cs_pc = "mark_dump"
    /\ cs_file' = [st |-> "ok", processed_repos |-> cs_data]
    /\ cs_i' = cs_i + 1
    /\ cs_pc' = "loop"
    /\ UNCHANGED <<cs_raw, cs_data, cs_all_repos, cs_runs>>
    /\ UNCHANGED notScrape

\* core_scrape: after the loop, db.batch_insert_or_update(all_repos).
CsBatchInsert ==
    /\ cs_pc = "loop"
    /\ cs_i > Len(full_names)
    /\ cs_raw' = cs_raw \cup Range(cs_all_repos)
    /\ cs_pc' = "done"
    /\ UNCHANGED <<cs_file, cs_data, cs_i, cs_all_repos, cs_runs>>
    /\ UNCHANGED notScrape

\* The process is killed.
CsCrash ==
    /\ cs_pc \in {"loop", "mark", "mark_dump"}
    /\ cs_pc' = "dead"
    /\ UNCHANGED <<cs_file, cs_raw, cs_data, cs_i, cs_all_repos, cs_runs>>
    /\ UNCHANGED notScrape

(***************************************************************************)
(* Part C: RateLimiter (grok-latex.py)                                     *)
(***************************************************************************)

\* Number of tasks that share one RateLimiter.
NCallers == 2

\* The tasks that share one RateLimiter.
Callers == 1..NCallers

\* RateLimiter.poll_interval
poll_interval == 5

\* check_and_wait returns without probing while remaining > ProbeAbove.
ProbeAbove == 100

\* check_and_wait pauses when the probed remaining is below PauseBelow.
PauseBelow == 50

\* Initial cached quota with and without a token.
TokenQuota == 5000
AnonQuota == 60

\* Number of check_and_wait calls made in all.
MaxCalls == 10

\* Values the API's real remaining quota takes, and the reset times it
\* reports (seconds after the start).
ApiQuota == {0, 49, 50, 5000}
ApiResets == {3600, 7200}



\* Wall-clock readings (seconds after the start) at the time of a probe.
Times == {0, 4000}

Max(a, b) == IF a >= b THEN a ELSE b

\* check_and_wait: wait_sec
WaitSec(now, reset) == Max(3600 - (now - reset) + 60, 300)

\* Variant of LockFree without mutual exclusion.
LockFree_Always(lock) == TRUE

\* asyncio.Lock: "async with self.lock" proceeds only when nobody holds it;
\* the lock is not reentrant.
LockFree(lock) == lock = 0

\* check_and_wait: the test that returns without a probe.
SkipProbe(call_count, remaining) ==
    call_count % poll_interval # 0 \/ remaining > ProbeAbove

\* Variant of ProbeResult that assumes the quota exhausted when the probe
\* raised.
ProbeResult_Pessimistic(o, remaining, reset, real_remaining, real_reset) ==
    IF o = "ok"
    THEN [remaining |-> real_remaining, reset |-> real_reset,
          pause |-> real_remaining < PauseBelow]
    ELSE IF o = "error"
    THEN [remaining |-> 0, reset |-> reset, pause |-> TRUE]
    ELSE [remaining |-> remaining, reset |-> reset, pause |-> FALSE]

\* check_and_wait: effect of the probe on the cached quota.  o is "ok" (status
\* 200), "status" (any other status) or "error" (the request raised: network
\* error or timeout).
ProbeResult(o, remaining, reset, real_remaining, real_reset) ==
    IF o = "ok"
    THEN [remaining |-> real_remaining, reset |-> real_reset,
          pause |-> real_remaining < PauseBelow]
    ELSE [remaining |-> remaining, reset |-> reset, pause |-> FALSE]

CallsStarted ==
    rl_call_count + Cardinality({c \in Callers : rl_pc[c] = "acquire"})

\* RateLimiter.__init__, with or without a token (time.time() is 0 then).
RlConstruct(token) ==
    /\ rl_token = "unset"
    /\ rl_token' = IF token THEN "token" ELSE "anon"
    /\ rl_remaining' = IF token THEN TokenQuota ELSE AnonQuota
    /\ rl_reset_timestamp' = 0 + 3600
    /\ rl_call_count' = 0
    /\ UNCHANGED <<rl_lock, rl_session, rl_pc, rl_depth, rl_wait_sec,
                   api_remaining, api_reset, rl_probe, rl_slept,
                   rl_low_start, rl_low_calls>>
    /\ UNCHANGED notRate

\* A task calls check_and_wait (from _fetch_json).
RlCall(c) ==
    /\ rl_token # "unset"
    /\ rl_pc[c] = "idle"
    /\ CallsStarted < MaxCalls
    /\ rl_pc' = [rl_pc EXCEPT ![c] = "acquire"]
    /\ rl_depth' = [rl_depth EXCEPT ![c] = 1]
    /\ rl_probe' = [rl_probe EXCEPT ![c] = "none"]
    /\ rl_slept' = [rl_slept EXCEPT ![c] = FALSE]
    /\ rl_low_start' = [rl_low_start EXCEPT ![c] = api_remaining < PauseBelow]
    /\ UNCHANGED <<rl_token, rl_remaining, rl_reset_timestamp, rl_call_count,
                   rl_lock, rl_session, rl_wait_sec, api_remaining, api_reset,
                   rl_low_calls>>
    /\ UNCHANGED notRate

\* A call that returns to its caller without having been suspended and
\* without a failed probe counts as a call that went through.
LowCallsAfterReturn(c) ==
    IF rl_slept[c] \/ rl_probe[c] \in {"status", "error"}
    THEN 0
    ELSE IF rl_low_start[c] /\ api_remaining < PauseBelow
    THEN rl_low_calls + 1
    ELSE rl_low_calls

\* check_and_wait from "async with self.lock" to the first await: the lock is
\* taken, call_count incremented, and either the call returns (releasing the
\* lock) or the session is created and the probe request sent.
RlEnter(c) ==
    /\ rl_pc[c] = "acquire"
    /\ LockFree(rl_lock)
    /\ rl_call_count' = rl_call_count + 1
    /\ IF SkipProbe(rl_call_count', rl_remaining)
       THEN /\ rl_lock' = 0
            /\ IF rl_depth[c] = 1
               THEN /\ rl_pc' = [rl_pc EXCEPT ![c] = "idle"]
                    /\ rl_depth' = [rl_depth EXCEPT ![c] = 0]
                    /\ rl_low_calls' = LowCallsAfterReturn(c)
               ELSE /\ rl_pc' = [rl_pc EXCEPT ![c] = "closing"]
                    /\ rl_depth' = [rl_depth EXCEPT ![c] = rl_depth[c] - 1]
                    /\ UNCHANGED rl_low_calls
            /\ UNCHANGED rl_session
       ELSE /\ rl_lock' = c
            /\ rl_session' = TRUE
            /\ rl_pc' = [rl_pc EXCEPT ![c] = "probing"]
            /\ UNCHANGED <<rl_depth, rl_low_calls>>
    /\ UNCHANGED <<rl_token, rl_remaining, rl_reset_timestamp, rl_wait_sec,
                   api_remaining, api_reset, rl_probe, rl_slept, rl_low_start>>
    /\ UNCHANGED notRate

\* check_and_wait: the probe request completes.
RlProbeResponse(c) ==
    /\ rl_pc[c] = "probing"
    /\ \E o \in {"ok", "status", "error"}, now \in Times :
        LET r == ProbeResult(o, rl_remaining, rl_reset_timestamp,
                             api_remaining, api_reset)
        IN /\ rl_remaining' = r.remaining
           /\ rl_reset_timestamp' = r.reset
           /\ rl_probe' = [rl_probe EXCEPT ![c] = o]
           /\ IF r.pause
              THEN /\ rl_pc' = [rl_pc EXCEPT ![c] = "sleeping"]
                   /\ rl_wait_sec' = WaitSec(now, r.reset)
                   /\ rl_slept' = [rl_slept EXCEPT ![c] = TRUE]
                   /\ rl_low_calls' = 0
              ELSE /\ rl_pc' = [rl_pc EXCEPT ![c] = "closing"]
                   /\ UNCHANGED <<rl_wait_sec, rl_slept, rl_low_calls>>
    /\ UNCHANGED <<rl_token, rl_call_count, rl_lock, rl_session, rl_depth,
                   api_remaining, api_reset, rl_low_start>>
    /\ UNCHANGED notRate

\* check_and_wait: asyncio.sleep(wait_sec) is over and the nested
\* "await self.check_and_wait()" starts, inside the outer "async with".
RlWake(c) ==
    /\ rl_pc[c] = "sleeping"
    /\ rl_pc' = [rl_pc EXCEPT ![c] = "acquire"]
    /\ rl_depth' = [rl_depth EXCEPT ![c] = rl_depth[c] + 1]
    /\ rl_wait_sec' = 0
    /\ UNCHANGED <<rl_token, rl_remaining, rl_reset_timestamp, rl_call_count,
                   rl_lock, rl_session, api_remaining, api_reset, rl_probe,
                   rl_slept, rl_low_start, rl_low_calls>>
    /\ UNCHANGED notRate

\* check_and_wait: the finally block closes the session, the "async with"
\* releases the lock and the call returns.
RlClose(c) ==
    /\ rl_pc[c] = "closing"
    /\ rl_session' = FALSE
    /\ rl_lock' = 0
    /\ IF rl_depth[c] = 1
       THEN /\ rl_pc' = [rl_pc EXCEPT ![c] = "idle"]
            /\ rl_depth' = [rl_depth EXCEPT ![c] = 0]
            /\ rl_low_calls' = LowCallsAfterReturn(c)
       ELSE /\ rl_depth' = [rl_depth EXCEPT ![c] = rl_depth[c] - 1]
            /\ UNCHANGED <<rl_pc, rl_low_calls>>
    /\ UNCHANGED <<rl_token, rl_remaining, rl_reset_timestamp, rl_call_count,
                   rl_wait_sec, api_remaining, api_reset, rl_probe, rl_slept,
                   rl_low_start>>
    /\ UNCHANGED notRate

\* The API's real quota changes (requests are spent, the window resets).
ApiChange ==
    /\ rl_token # "unset"
    /\ \E q \in ApiQuota, t \in ApiResets :
        /\ <<q, t>> # <<api_remaining, api_reset>>
        /\ api_remaining' = q
        /\ api_reset' = t
        /\ IF q >= PauseBelow
           THEN /\ rl_low_start' = [c \in Callers |-> FALSE]
                /\ rl_low_calls' = 0
           ELSE UNCHANGED <<rl_low_start, rl_low_calls>>
    /\ UNCHANGED <<rl_token, rl_remaining, rl_reset_timestamp, rl_call_count,
                   rl_lock, rl_session, rl_pc, rl_depth, rl_wait_sec,
                   rl_probe, rl_slept>>
    /\ UNCHANGED notRate

(***************************************************************************)
(* Part D: CheckpointManager.save and load (grok-latex.py) on any input     *)
(***************************************************************************)

\* Largest start page among the arguments of save.
MaxStartPage == 2

\* The identifiers the processed argument of save is made of.
CpRepos == {"o/a", "o/b", "o/c"}

\* The orders in which list(S) may enumerate the set S.
Orders(S) ==
    {f \in [1..Cardinality(S) -> S] :
        \A i, j \in 1..Cardinality(S) : f[i] = f[j] => i = j}

\* CheckpointManager.save(processed, total_new, queries_used, start_pages,
\* query_idx): the data dict is built and open(checkpoint_file, 'w') truncates
\* the file ...
CpSaveOpen(ps, sp, query_idx) ==
    /\ cp_pc \in {"idle", "saved", "loaded"}
    /\ cp_in' = [processed |-> ps, start_pages |-> sp, query_idx |-> query_idx]
    /\ cp_file' = [st |-> "partial", processed |-> <<>>, start_pages |-> {},
                   query_idx |-> 0]
    /\ cp_pc' = "saving"
    /\ cp_out' = FreshState
    /\ UNCHANGED notCkpt

\* ... and json.dump writes it, the processed set as a list in the order the
\* set enumerates.
CpSaveDump ==
    /\ cp_pc = "saving"
    /\ \E order \in Orders(cp_in.processed) :
          cp_file' = CheckpointData(order, cp_in.start_pages, cp_in.query_idx)
    /\ cp_pc' = "saved"
    /\ UNCHANGED <<cp_in, cp_out>>
    /\ UNCHANGED notCkpt

\* CheckpointManager.load of the file as it is after a save has returned (or
\* before any save, when there is no file and the arguments are the empty
\* state).
CpLoad ==
    /\ cp_pc \in {"idle", "saved"}
    /\ cp_out' = CheckpointLoad(cp_file)
    /\ cp_pc' = "loaded"
    /\ UNCHANGED <<cp_file, cp_in>>
    /\ UNCHANGED notCkpt

(***************************************************************************)
(* Part E: CheckpointManager.load (main.py) on any checkpoint file          *)
(***************************************************************************)

\* Longest 'processed_repos' list among the files.
MaxListLen == 2

\* The names a 'processed_repos' list is made of.
LdNames == {"u/a", "u/b", "u/c"}

\* What the file's JSON object holds under 'processed_repos': nothing
\* ("absent"), a list of strings ("list", with its items), a list with a list
\* or an object among its items ("list_nested"), or a value of another type.
PrValues ==
    {[kind |-> k, items |-> <<>>] :
        k \in {"absent", "list_nested", "string", "number", "object", "null"}}
    \cup {[kind |-> "list", items |-> l] :
            l \in UNION {[1..n -> LdNames] : n \in 0..MaxListLen}}

\* The files: none, one that is not JSON (also an empty or cut-off file), a
\* JSON object (with or without the other fields load's default has, with or
\* without fields unknown to the program), or JSON of another top-level shape.
LdFiles ==
    {[shape |-> sh, pr |-> [kind |-> "absent", items |-> <<>>],
      known |-> FALSE, extra |-> FALSE] :
        sh \in {"missing", "invalid", "array", "string", "number", "null"}}
    \cup {[shape |-> "object", pr |-> v, known |-> k, extra |-> x] :
            v \in PrValues, k \in BOOLEAN, x \in BOOLEAN}

\* load's default state.
LdDefault ==
    [raised |-> FALSE, is_set |-> TRUE, processed_repos |-> {},
     known |-> TRUE, extra |-> FALSE]

\* CheckpointManager.load (main.py).  os.path.exists guards the open; a
\* JSONDecodeError or KeyError gives the default state.  For a JSON object the
\* 'processed_repos' list is made a set (set() raises TypeError for an
\* unhashable item), a missing one becomes set(), a value of another type is
\* left as it is.  For a top-level value that is not an object the tests
\* "'processed_repos' in data" and "data['processed_repos'] = set()" raise
\* TypeError, which load does not catch.
MainLoad(f) ==
    CASE f.shape \in {"missing", "invalid"} -> LdDefault
      [] f.shape = "object" ->
           CASE f.pr.kind = "list" ->
                  [raised |-> FALSE, is_set |-> TRUE,
                   processed_repos |-> Range(f.pr.items),
                   known |-> f.known, extra |-> f.extra]
             [] f.pr.kind = "list_nested" ->
                  [raised |-> TRUE, is_set |-> FALSE, processed_repos |-> {},
                   known |-> FALSE, extra |-> FALSE]
             [] f.pr.kind = "absent" ->
                  [raised |-> FALSE, is_set |-> TRUE, processed_repos |-> {},
                   known |-> f.known, extra |-> f.extra]
             [] OTHER ->
                  [raised |-> FALSE, is_set |-> FALSE, processed_repos |-> {},
                   known |-> f.known, extra |-> f.extra]
      [] OTHER ->
           [raised |-> TRUE, is_set |-> FALSE, processed_repos |-> {},
            known |-> FALSE, extra |-> FALSE]

\* A checkpoint file is found in place (written by an earlier run, by another
\* version of the program, or damaged).
LdWrite(f) ==
    /\ ld_pc \in {"idle", "loaded"}
    /\ ld_file' = f
    /\ ld_pc' = "written"
    /\ ld_out' = LdDefault
    /\ UNCHANGED notLoad

\* CheckpointManager.__init__: self.data = self.load()
LdLoad ==
    /\ ld_pc = "written"
    /\ ld_out' = MainLoad(ld_file)
    /\ ld_pc' = "loaded"
    /\ UNCHANGED ld_file
    /\ UNCHANGED notLoad

(***************************************************************************)
(* Part F: GitHubFetcher.discover_repos_stream and _fetch_json              *)
(*         (grok-latex.py) for any query, start page and cap                *)
(***************************************************************************)

\* Largest max_repos handed to the generator.
MaxCap == 5

\* The generator runs on with o as the outcome of its page request, up to
\* its next yield, its end or its exception.
DsDeliver(o) ==
    LET r == StreamStep(ds_g, ds_query, ds_cap, o)
    IN /\ ds_g' = r.g
       /\ ds_yielded' = IF r.kind = "yield" THEN Append(ds_yielded, r.item)
                         ELSE ds_yielded
       /\ ds_pc' = CASE r.kind = "yield" -> "running"
                      [] r.kind = "end" -> "ended"
                      [] OTHER -> "raised"

\* discover_repos_stream([query], max_repos, start_page) is called.
DsStart(q, p, cap) ==
    /\ ds_pc \in {"idle", "ended", "raised"}
    /\ ds_query' = q
    /\ ds_start' = p
    /\ ds_cap' = cap
    /\ ds_g' = [page |-> p, idx |-> 0, items |-> <<>>, fetched |-> 0]
    /\ ds_pc' = "running"
    /\ ds_yielded' = <<>>
    /\ ds_clean' = TRUE
    /\ fj_attempts' = 0
    /\ fj_resp' = "none"
    /\ UNCHANGED notDiscover

\* The consumer asks for the next item: the generator either goes on within
\* the page it holds (or ends at its cap), or calls _fetch_json for a page.
DsResume ==
    /\ ds_pc = "running"
    /\ IF StreamFetches(ds_g, ds_cap)
       THEN /\ ds_pc' = "fetching"
            /\ fj_attempts' = 0
            /\ fj_resp' = "none"
            /\ UNCHANGED <<ds_g, ds_yielded>>
       ELSE /\ DsDeliver("ok")
            /\ UNCHANGED <<fj_attempts, fj_resp>>
    /\ UNCHANGED <<ds_query, ds_start, ds_cap, ds_clean>>
    /\ UNCHANGED notDiscover

\* _fetch_json: one attempt of the decorated call, answered by resp; unless
\* the decorator retries, the result goes to the generator.
FjAttempt(resp) ==
    /\ ds_pc = "fetching"
    /\ fj_attempts' = fj_attempts + 1
    /\ fj_resp' = resp
    /\ ds_clean' = (ds_clean /\ resp = "200")
    /\ LET out == FetchBody(resp)
       IN IF RetryAgain(out, fj_attempts')
          THEN UNCHANGED <<ds_g, ds_pc, ds_yielded>>
          ELSE DsDeliver(FetchOutcome(out))
    /\ UNCHANGED <<ds_query, ds_start, ds_cap>>
    /\ UNCHANGED notDiscover

(***************************************************************************)
(* Part G: ThemeScraperAgent.run (grok-max.py)                              *)
(***************************************************************************)

\* Config.BATCH_SIZE of grok-max.py (30 in the code, scaled).
TM_BATCH_SIZE == 2

\* Config.MAX_REPOS of grok-max.py (1000 in the code, scaled).
TM_MAX_REPOS == 6

\* Number of times the theme scraper is started.
MaxThemeRuns == 2

\* Without --query and without agentic mode the queries are
\* Config.DEFAULT_QUERIES; the search endpoint is the one of part A.
TmQueries == queries

TmNoCkpt == [st |-> "missing", processed |-> {}, query_idx |-> 0]

\* CheckpointManager.load of grok-max.py.  start_pages is left out: run
\* stores start_pages[query] = start_page, the value it read, so every query
\* starts at page 1 in every run.
TmCheckpointLoad(f) ==
    IF f.st = "ok" THEN [processed |-> f.processed, query_idx |-> f.query_idx]
    ELSE [processed |-> {}, query_idx |-> 0]

\* What a save can come to: the file is written ("ok"), open() raises and the
\* file stays as it was ("open_error"), or the write raises after the file
\* was truncated ("write_error").
SaveOutcomes == {"ok", "open_error", "write_error"}

\* CheckpointManager.save of grok-max.py: open(checkpoint_file, 'w') and
\* json.dump, with no try block around them.  The result is the file and
\* whether an exception leaves save.
TmCheckpointSave(f, ps, query_idx, outcome) ==
    CASE outcome = "ok" ->
           [file |-> [st |-> "ok", processed |-> ps, query_idx |-> query_idx],
            raised |-> FALSE]
      [] outcome = "open_error" -> [file |-> f, raised |-> TRUE]
      [] OTHER ->
           [file |-> [st |-> "partial", processed |-> {}, query_idx |-> 0],
            raised |-> TRUE]

\* run up to the query loop: the checkpoint is loaded (resume) or not.
TmStart(resume) ==
    /\ tm_pc \in {"idle", "done"}
    /\ tm_runs < MaxThemeRuns
    /\ LET l == IF resume THEN TmCheckpointLoad(tm_ckpt)
                ELSE [processed |-> {}, query_idx |-> 0]
       IN /\ tm_processed' = l.processed
          /\ tm_q_idx' = l.query_idx
    /\ tm_pc' = "q_head"
    /\ tm_shutdown' = FALSE
    /\ tm_batch' = <<>>
    /\ tm_stream' = NoStream
    /\ tm_item' = ""
    /\ tm_runs' = tm_runs + 1
    /\ tm_result' = "none"
    /\ UNCHANGED <<tm_ckpt, tm_store>>
    /\ UNCHANGED notTheme

\* run: head of "for q_idx in range(query_idx, len(queries))".
TmQueryHead ==
    /\ tm_pc = "q_head"
    /\ IF tm_q_idx >= Len(TmQueries) \/ tm_shutdown
       THEN /\ tm_pc' = "finally"
            /\ UNCHANGED <<tm_stream, tm_batch>>
       ELSE /\ tm_stream' = [page |-> 1, idx |-> 0, items |-> <<>>,
                              fetched |-> 0]
            /\ tm_batch' = <<>>
            /\ tm_pc' = "next"
    /\ UNCHANGED <<tm_ckpt, tm_store, tm_shutdown, tm_processed, tm_q_idx,
                   tm_item, tm_runs, tm_result>>
    /\ UNCHANGED notTheme

\* run: "async for repo_info in stream"; an exception of the page request is
\* caught by "except Exception", which logs "Run error".
TmStreamNext ==
    /\ tm_pc = "next"
    /\ \E o \in FetchOutcomes :
        LET r == StreamStep(tm_stream, TmQueries[tm_q_idx + 1],
                            TM_MAX_REPOS \div Len(TmQueries), o)
        IN /\ tm_stream' = r.g
           /\ tm_item' = r.item
           /\ tm_pc' = CASE r.kind = "yield" -> "got_item"
                         [] r.kind = "end" -> "after_stream"
                         [] OTHER -> "finally"
    /\ UNCHANGED <<tm_ckpt, tm_store, tm_shutdown, tm_processed, tm_q_idx,
                   tm_batch, tm_runs, tm_result>>
    /\ UNCHANGED notTheme

\* run: body of the "async for" up to the batch-size test.
TmGotItem ==
    /\ tm_pc = "got_item"
    /\ IF tm_shutdown
       THEN /\ tm_pc' = "after_stream"
            /\ UNCHANGED tm_batch
       ELSE IF tm_item \in tm_processed
       THEN /\ tm_pc' = "next"
            /\ UNCHANGED tm_batch
       ELSE /\ tm_batch' = Append(tm_batch, tm_item)
            /\ tm_pc' = IF Len(tm_batch') >= TM_BATCH_SIZE
                         THEN "process_full" ELSE "next"
    /\ UNCHANGED <<tm_ckpt, tm_store, tm_shutdown, tm_processed, tm_q_idx,
                   tm_stream, tm_item, tm_runs, tm_result>>
    /\ UNCHANGED notTheme

\* _process_batch of grok-max.py: the batch is enriched, classified and
\* written in one transaction, then marked processed; a DatabaseError leaves
\* run's loop through "except Exception".
TmProcessBatch(db_ok, then) ==
    IF db_ok
    THEN /\ tm_store' = tm_store \cup Range(tm_batch)
         /\ tm_processed' = tm_processed \cup Range(tm_batch)
         /\ tm_pc' = then
    ELSE /\ tm_pc' = "finally"
         /\ UNCHANGED <<tm_store, tm_processed>>

\* run: a full batch is processed and emptied.
TmProcessFull ==
    /\ tm_pc = "process_full"
    /\ \E db_ok \in BOOLEAN : TmProcessBatch(db_ok, "save")
    /\ tm_batch' = IF tm_pc' = "save" THEN <<>> ELSE tm_batch
    /\ UNCHANGED <<tm_ckpt, tm_shutdown, tm_q_idx, tm_stream, tm_item,
                   tm_runs, tm_result>>
    /\ UNCHANGED notTheme

\* run: self.checkpoint.save(..., q_idx) after a full batch; an exception of
\* save is caught by "except Exception" outside the loops.
TmSaveInLoop ==
    /\ tm_pc = "save"
    /\ \E outcome \in SaveOutcomes :
        LET r == TmCheckpointSave(tm_ckpt, tm_processed, tm_q_idx, outcome)
        IN /\ tm_ckpt' = r.file
           /\ tm_pc' = IF r.raised THEN "finally" ELSE "next"
    /\ UNCHANGED <<tm_store, tm_shutdown, tm_processed, tm_q_idx, tm_batch,
                   tm_stream, tm_item, tm_runs, tm_result>>
    /\ UNCHANGED notTheme

\* run: after the "async for": "if batch:" processes the rest, then the for
\* loop takes the next query index.
TmAfterStream ==
    /\ tm_pc = "after_stream"
    /\ IF tm_batch # <<>>
       THEN \E db_ok \in BOOLEAN : TmProcessBatch(db_ok, "q_head")
       ELSE /\ tm_pc' = "q_head"
            /\ UNCHANGED <<tm_store, tm_processed>>
    /\ tm_q_idx' = IF tm_pc' = "q_head" THEN tm_q_idx + 1 ELSE tm_q_idx
    /\ UNCHANGED <<tm_ckpt, tm_shutdown, tm_batch, tm_stream, tm_item,
                   tm_runs, tm_result>>
    /\ UNCHANGED notTheme

\* run: the finally block: save(..., len(queries)), cleanup and the export;
\* an exception of save leaves the finally block and run.
TmFinally ==
    /\ tm_pc = "finally"
    /\ \E outcome \in SaveOutcomes :
        LET r == TmCheckpointSave(tm_ckpt, tm_processed, Len(TmQueries),
                                  outcome)
        IN /\ tm_ckpt' = r.file
           /\ tm_result' = IF r.raised THEN "raised" ELSE "returned"
    /\ tm_pc' = "done"
    /\ UNCHANGED <<tm_store, tm_shutdown, tm_processed, tm_q_idx, tm_batch,
                   tm_stream, tm_item, tm_runs>>
    /\ UNCHANGED notTheme

\* _setup_signal_handlers of grok-max.py: the handler sets the flag and calls
\* sys.exit(0); SystemExit unwinds run to its finally block.
TmSignal ==
    /\ tm_pc \notin {"idle", "done", "finally"}
    /\ tm_shutdown' = TRUE
    /\ tm_pc' = "finally"
    /\ UNCHANGED <<tm_ckpt, tm_store, tm_processed, tm_q_idx, tm_batch,
                   tm_stream, tm_item, tm_runs, tm_result>>
    /\ UNCHANGED notTheme

(***************************************************************************)
(* Part H: the enrichment tasks of _process_batch (grok-latex.py)           *)
(***************************************************************************)

\* Config.MAX_CONCURRENT (20 in the code, scaled).
MAX_CONCURRENT == 2

\* Largest batch handed to _process_batch.
MaxBatch == 4

EnTasks == 1..MaxBatch

\* A task is "none" (no such batch element), "new" (created by gather, not
\* yet past "async with self.semaphore"), "contents" (inside, awaiting the
\* contents listing), "download" (inside, awaiting the .tex download) or
\* "done" (left the with block and returned).
EnInside == {"contents", "download"}

\* asyncio.Semaphore.acquire goes on without waiting only when the value is
\* positive.
SemaphoreFree_Always(value) == TRUE
SemaphoreFree(value) == value > 0

\* _process_batch is called with a batch of n elements: one coroutine per
\* element is handed to asyncio.gather.
EnProcessBatch(n) ==
    /\ en_pc = "idle"
    /\ en_task' = [t \in EnTasks |-> IF t <= n THEN "new" ELSE "none"]
    /\ en_pc' = "gather"
    /\ UNCHANGED en_semaphore
    /\ UNCHANGED notEnrich

\* fetch_tex_content: "async with self.semaphore" is entered.
EnAcquire(t) ==
    /\ en_task[t] = "new"
    /\ SemaphoreFree(en_semaphore)
    /\ en_semaphore' = en_semaphore - 1
    /\ en_task' = [en_task EXCEPT ![t] = "contents"]
    /\ UNCHANGED en_pc
    /\ UNCHANGED notEnrich

\* fetch_tex_content: the contents listing arrives.  With a .tex file in it
\* the download follows; without one, or when the request raised, the task
\* returns and the with block releases the semaphore.
EnContents(t, outcome) ==
    /\ en_task[t] = "contents"
    /\ IF outcome = "tex"
       THEN /\ en_task' = [en_task EXCEPT ![t] = "download"]
            /\ UNCHANGED en_semaphore
       ELSE /\ en_task' = [en_task EXCEPT ![t] = "done"]
            /\ en_semaphore' = en_semaphore + 1
    /\ UNCHANGED en_pc
    /\ UNCHANGED notEnrich

\* fetch_tex_content: the download ends (with any status or an exception);
\* the task returns and the with block releases the semaphore.
EnDownload(t) ==
    /\ en_task[t] = "download"
    /\ en_task' = [en_task EXCEPT ![t] = "done"]
    /\ en_semaphore' = en_semaphore + 1
    /\ UNCHANGED en_pc
    /\ UNCHANGED notEnrich

\* asyncio.gather returns when every task has returned.
EnGather ==
    /\ en_pc = "gather"
    /\ \A t \in EnTasks : en_task[t] \in {"none", "done"}
    /\ en_task' = [t \in EnTasks |-> "none"]
    /\ en_pc' = "idle"
    /\ UNCHANGED en_semaphore
    /\ UNCHANGED notEnrich

(***************************************************************************)
(* Part I: main, agent_process, GrokClient.chat_completion, CostLogger      *)
(* (main.py)                                                                *)
(***************************************************************************)

\* Config.AI_BATCH_SIZE (15 in the code, scaled).
AI_BATCH_SIZE == 2

\* --budget (50.0 by default), in cost units.
budget == 2

\* --max-rounds.
MaxRounds == 2

\* Largest cost of the usage of one response, in cost units.
MaxUsage == 3

\* The repositories core_scrape can put into the raw Store.
ApRepos == {"t/a", "t/b", "t/c"}

\* The full_names an AI answer can hold: those and one more.
ApIds == ApRepos \cup {"x/other"}

\* DatabaseManager.query_unprocessed: LIMIT rows with status 'raw' (the
\* statement has no ORDER BY).
QueryUnprocessed(db, limit) ==
    LET rawRows == {r \in ApRepos : db[r] = "raw"}
        n == IF Cardinality(rawRows) < limit THEN Cardinality(rawRows)
             ELSE limit
    IN {S \in SUBSET rawRows : Cardinality(S) = n}

\* CostLogger.add_cost: nothing in free mode; otherwise the cost is added and
\* ValueError raised when the total exceeds the budget.
AddCost_NoBudgetCheck(total, cost, free) ==
    IF free THEN [total |-> total, raised |-> FALSE]
    ELSE [total |-> total + cost, raised |-> FALSE]
AddCost(total, cost, free) ==
    IF free THEN [total |-> total, raised |-> FALSE]
    ELSE [total |-> total + cost, raised |-> total + cost > budget]

\* What the chat-completion endpoint can do with a request.
FirstAnswers == {"ok", "rate_error", "other_error"}
SecondAnswers == {"ok", "error"}

\* The content of a successful answer: not JSON, a JSON object without
\* "updated", a JSON value that is no object, or a JSON object whose
\* "updated" lists entries with the given full_names.
Contents ==
    {[kind |-> k, ids |-> {}] : k \in {"not_json", "no_updated", "json_list"}}
        \cup {[kind |-> "updated", ids |-> S] : S \in SUBSET ApIds}

\* The content of the "no-AI" fallback: "updated" echoes the user message, a
\* string.
EchoContent == [kind |-> "echo", ids |-> {}]

\* GrokClient.chat_completion.  A successful first request is charged by
\* add_cost, whose ValueError is not caught.  After an OpenAIError that
\* mentions a rate limit or an invalid model the key is rotated and the
\* request repeated once: its success path reads est_progress, which is
\* assigned only on the first success path, so it ends in UnboundLocalError;
\* its failure, and every other OpenAIError, gives the fallback response.
ChatCompletion(first, second, content, cost, total, free) ==
    CASE first = "ok" ->
            LET ac == AddCost(total, cost, free)
            IN [kind |-> IF ac.raised THEN "raise" ELSE "return",
                content |-> content, total |-> ac.total, requests |-> 1]
      [] first = "rate_error" ->
            [kind |-> IF second = "ok" THEN "raise" ELSE "return",
             content |-> EchoContent, total |-> total, requests |-> 2]
      [] OTHER ->
            [kind |-> "return", content |-> EchoContent, total |-> total,
             requests |-> 1]

\* ThemeAnalyzer.agentic_reasoning_batch: the entries it returns as updated.
\* A JSONDecodeError or KeyError gives the input entries; an answer without
\* "updated" too; parsed.get on a JSON list and entry.get on the characters
\* of the echoed string raise AttributeError, which is not caught.
AgenticReasoningBatch(es, chat) ==
    CASE chat.kind = "raise" -> [kind |-> "raise", updated |-> {}]
      [] chat.content.kind \in {"not_json", "no_updated"} ->
            [kind |-> "return", updated |-> es]
      [] chat.content.kind = "updated" ->
            [kind |-> "return", updated |-> chat.content.ids]
      [] OTHER -> [kind |-> "raise", updated |-> {}]

\* main: the arguments are parsed, cost_logger is created, the first round
\* starts.
ApMain(free) ==
    /\ ap_pc = "idle"
    /\ ap_free' = free
    /\ ap_round' = 1
    /\ ap_pc' = "scrape"
    /\ UNCHANGED <<ap_raw, ap_enhanced, total_cost, ap_unprocessed,
                   ap_result, ap_over>>
    /\ UNCHANGED notPipeline

\* core_scrape: the fetched repositories are written to the raw Store with
\* INSERT OR REPLACE, their status being the default 'raw'.
ApCoreScrape(fetched) ==
    /\ ap_pc = "scrape"
    /\ ap_raw' = [r \in ApRepos |-> IF r \in fetched THEN "raw" ELSE ap_raw[r]]
    /\ ap_unprocessed' = {}
    /\ ap_result' = "none"
    /\ ap_pc' = "agent"
    /\ UNCHANGED <<ap_free, ap_round, ap_enhanced, total_cost, ap_over>>
    /\ UNCHANGED notPipeline

\* agent_process and main's step after it: an exception ends the process;
\* otherwise the next round follows, or the builder after the last round.
ApAgentProcess(unprocessed, first, second, content, cost) ==
    /\ ap_pc = "agent"
    /\ unprocessed \in QueryUnprocessed(ap_raw, AI_BATCH_SIZE)
    /\ ap_unprocessed' = unprocessed
    /\ IF unprocessed = {}
       THEN /\ ap_result' = "returned"
            /\ UNCHANGED <<ap_raw, ap_enhanced, total_cost, ap_over>>
       ELSE LET chat == ChatCompletion(first, second, content, cost,
                                       total_cost, ap_free)
                r == AgenticReasoningBatch(unprocessed, chat)
            IN /\ total_cost' = chat.total
               /\ ap_over' = (ap_over \/ (~ap_free /\ total_cost > budget))
               /\ ap_result' = IF r.kind = "raise" THEN "raised"
                                ELSE "returned"
               /\ ap_enhanced' =
                     [n \in ApIds |-> IF r.kind = "return" /\ n \in r.updated
                                      THEN "processed" ELSE ap_enhanced[n]]
               /\ ap_raw' =
                     [n \in ApRepos |->
                        IF r.kind = "return" /\ n \in r.updated
                                             /\ ap_raw[n] # "absent"
                        THEN "processed" ELSE ap_raw[n]]
    /\ ap_pc' = IF ap_result' = "raised" THEN "exited"
                ELSE IF ap_round < MaxRounds THEN "scrape" ELSE "built"
    /\ ap_round' = IF ap_result' = "returned" /\ ap_round < MaxRounds
                   THEN ap_round + 1 ELSE ap_round
    /\ UNCHANGED ap_free
    /\ UNCHANGED notPipeline

(***************************************************************************)
(* Part J: MiniMaxClient (theme-scraper.py)                                 *)
(***************************************************************************)

\* Largest number of entries of the api_keys argument.
MaxKeys == 4

\* The api_keys argument: each entry is empty or a key.
KeyLists ==
    UNION {[1..n -> {"", "key"}] : n \in 0..MaxKeys}

\* __init__: "[key for key in api_keys if key]".
NonEmptyKeys(api_keys) ==
    SelectSeq(api_keys, LAMBDA k : k # "")

\* _get_next_key: next(self.key_cycle), as a position in self.api_keys.
NextKey_Stuck(cur, n) == cur
NextKey(cur, n) == (cur + 1) % n

\* What one requests.post can come to.
MmResponses == {"200", "401", "429", "500", "timeout", "exception"}

\* MiniMaxClient.__init__: ValueError without a non-empty key; otherwise the
\* cycle is created and its first key taken.
MmInit(api_keys) ==
    /\ mm_pc = "none"
    /\ LET keys == NonEmptyKeys(api_keys)
       IN IF keys = <<>>
          THEN /\ mm_pc' = "init_failed"
               /\ UNCHANGED mm_n
          ELSE /\ mm_pc' = "idle"
               /\ mm_n' = Len(keys)
    /\ UNCHANGED <<mm_current, mm_header, mm_attempt, mm_last_error,
                   mm_start, mm_sent>>
    /\ UNCHANGED notMinimax

\* chat_completion up to the loop: headers carries the current key.
MmCall ==
    /\ mm_pc \in {"idle", "returned", "raised"}
    /\ mm_pc' = "loop"
    /\ mm_header' = mm_current
    /\ mm_attempt' = 0
    /\ mm_last_error' = "None"
    /\ mm_start' = mm_current
    /\ mm_sent' = <<>>
    /\ UNCHANGED <<mm_n, mm_current>>
    /\ UNCHANGED notMinimax

\* chat_completion: one pass of "for attempt in range(max_retries)", and the
\* raise behind the loop when it was the last pass.
MmAttempt(resp) ==
    /\ mm_pc = "loop"
    /\ mm_attempt < mm_n
    /\ mm_sent' = Append(mm_sent, mm_header)
    /\ IF resp = "200"
       THEN /\ mm_pc' = "returned"
            /\ UNCHANGED <<mm_current, mm_header, mm_attempt, mm_last_error>>
       ELSE /\ LET rotate == resp \in {"401", "429"}
                                \/ mm_attempt < mm_n - 1
                   key == IF rotate THEN NextKey(mm_current, mm_n)
                          ELSE mm_current
               IN /\ mm_current' = key
                  /\ mm_header' = IF rotate THEN key ELSE mm_header
            /\ mm_last_error' =
                   CASE resp \in {"401", "429"} -> mm_last_error
                     [] resp = "500" -> "API error"
                     [] resp = "timeout" -> "Request timeout"
                     [] OTHER -> "exception"
            /\ mm_attempt' = mm_attempt + 1
            /\ mm_pc' = IF mm_attempt + 1 < mm_n THEN "loop" ELSE "raised"
    /\ UNCHANGED <<mm_n, mm_start>>
    /\ UNCHANGED notMinimax

(***************************************************************************)
(* Part K: LaTeXTemplateAgent.download_templates (grok-latex.py)            *)
(***************************************************************************)

DlRepos == {"d/a", "d/b"}

\* The columns of a row that the model follows, besides full_name.
DlFields == {"description", "stars", "category", "is_valid",
             "ai_description", "processing_status"}

\* min_stars of the query_top call of download_templates.
min_stars == 10

\* Config.CATEGORIES, cut down.
CATEGORIES == {"resume_cv", "general"}

\* The rows _process_batch can have written for a repository.
ScrapedRows ==
    {[f \in DlFields |->
        CASE f = "description" -> d
          [] f = "stars" -> st
          [] f = "category" -> c
          [] f = "is_valid" -> v
          [] f = "ai_description" -> ai
          [] OTHER -> IF v THEN "scraped_valid" ELSE "scraped_invalid"] :
        d \in {"", "A CV class"}, st \in {5, 20}, c \in CATEGORIES,
        v \in BOOLEAN, ai \in {"", "Two-column CV"}}

\* _validate_entry: the "Set defaults" block and the processing_status line.
EntryDefault(f) ==
    CASE f = "description" -> ""
      [] f = "stars" -> 0
      [] f = "category" -> "general"
      [] f = "is_valid" -> FALSE
      [] f = "ai_description" -> ""
      [] OTHER -> "scraped"

\* No row for a repository: the status "absent", the other fields blank.
NoRow ==
    [f \in DlFields |-> IF f = "processing_status" THEN "absent"
                        ELSE EntryDefault(f)]

\* _validate_entry on an entry that carries the keys DOMAIN entry.
ValidateEntry(entry) ==
    [f \in DlFields |-> IF f \in DOMAIN entry THEN entry[f]
                        ELSE EntryDefault(f)]

\* DatabaseManager.query_top as download_templates calls it for every
\* category: the rows with enough stars that are valid and not in error.
QueryTop(db) ==
    {r \in DlRepos : /\ db[r]["processing_status"] # "absent"
                     /\ db[r]["category"] \in CATEGORIES
                     /\ db[r]["stars"] >= min_stars
                     /\ db[r]["is_valid"] = TRUE
                     /\ db[r]["processing_status"] # "error"}

\* The entry download_templates hands to batch_insert_or_update: full_name
\* (the key of the row), processing_status and local_path (no column of the
\* INSERT statement).
DownloadedEntry == [f \in {"processing_status"} |-> "downloaded"]

\* _process_batch has written the row of a repository.
DlStore(r, row) ==
    /\ dl_store[r]["processing_status"] = "absent"
    /\ dl_store' = [dl_store EXCEPT ![r] = row]
    /\ UNCHANGED <<dl_before, dl_marked>>
    /\ UNCHANGED notDownload

\* download_templates: every top repository that is not yet 'downloaded' and
\* whose download succeeds (those of ok) is written with INSERT OR REPLACE.
DownloadTemplates(ok) ==
    /\ LET todo == {r \in QueryTop(dl_store) :
                       dl_store[r]["processing_status"] # "downloaded"}
       IN /\ ok \subseteq todo
          /\ dl_store' = [r \in DlRepos |->
                            IF r \in ok THEN ValidateEntry(DownloadedEntry)
                            ELSE dl_store[r]]
          /\ dl_marked' = ok
    /\ dl_before' = dl_store
    /\ UNCHANGED notDownload

(***************************************************************************)
(* Specifications                                                          *)
(***************************************************************************)

vars == <<agentVars, scrapeVars, rateVars,
         ckptVars,
         loadVars,
         discoverVars,
         themeVars,
         enrichVars,
         pipelineVars,
         minimaxVars,
         downloadVars>>

\* The state before any process has started: no checkpoint or temp file, empty
\* tables, no RateLimiter constructed.  use_ai is the configuration (an xAI
\* key is set or not).
Init ==
    /\ ckpt = MissingCkpt
    /\ disc = NoDisc
    /\ tempFile = MissingTemp
    /\ store = [r \in Repos |-> "absent"]
    /\ use_ai \in BOOLEAN
    /\ pc = "idle"
    /\ ret = <<>>
    /\ shutdown_flag = FALSE
    /\ processed = {}
    /\ start_pages = EmptyPages
    /\ q_idx = 0
    /\ batch = <<>>
    /\ current_page = 0
    /\ stream = NoStream
    /\ repo_info = ""
    /\ entries = <<>>
    /\ save_idx = 0
    /\ runNo = 0
    /\ resumedAfterKill = FALSE
    /\ stopIdx = -1
    /\ inflight = {}
    /\ killCkpt = {}
    /\ enriched = {}
    /\ done_ids = {}
    /\ fetch_failed = {}
    /\ cs_file = [st |-> "missing", processed_repos |-> {}]
    /\ cs_raw = {}
    /\ cs_pc = "idle"
    /\ cs_data = {}
    /\ cs_i = 1
    /\ cs_all_repos = <<>>
    /\ cs_runs = 0
    /\ rl_token = "unset"
    /\ rl_remaining = 0
    /\ rl_reset_timestamp = 0
    /\ rl_call_count = 0
    /\ rl_lock = 0
    /\ rl_session = FALSE
    /\ rl_pc = [c \in Callers |-> "idle"]
    /\ rl_depth = [c \in Callers |-> 0]
    /\ rl_wait_sec = 0
    /\ api_remaining = TokenQuota
    /\ api_reset = 3600
    /\ rl_probe = [c \in Callers |-> "none"]
    /\ rl_slept = [c \in Callers |-> FALSE]
    /\ rl_low_start = [c \in Callers |-> FALSE]
    /\ rl_low_calls = 0
    /\ cp_file = MissingCkpt
    /\ cp_pc = "idle"
    /\ cp_in = FreshState
    /\ cp_out = FreshState
    /\ ld_file = [shape |-> "missing", pr |-> [kind |-> "absent", items |-> <<>>],
                  known |-> FALSE, extra |-> FALSE]
    /\ ld_pc = "idle"
    /\ ld_out = LdDefault
    /\ ds_query = "q1"
    /\ ds_start = 1
    /\ ds_cap = 0
    /\ ds_g = NoStream
    /\ ds_pc = "idle"
    /\ ds_yielded = <<>>
    /\ ds_clean = TRUE
    /\ fj_attempts = 0
    /\ fj_resp = "none"
    /\ tm_ckpt = TmNoCkpt
    /\ tm_store = {}
    /\ tm_pc = "idle"
    /\ tm_shutdown = FALSE
    /\ tm_processed = {}
    /\ tm_q_idx = 0
    /\ tm_batch = <<>>
    /\ tm_stream = NoStream
    /\ tm_item = ""
    /\ tm_runs = 0
    /\ tm_result = "none"
    /\ en_pc = "idle"
    /\ en_task = [t \in EnTasks |-> "none"]
    /\ en_semaphore = MAX_CONCURRENT
    /\ ap_pc = "idle"
    /\ ap_free = FALSE
    /\ ap_round = 0
    /\ ap_raw = [r \in ApRepos |-> "absent"]
    /\ ap_enhanced = [n \in ApIds |-> "absent"]
    /\ total_cost = 0
    /\ ap_unprocessed = {}
    /\ ap_result = "none"
    /\ ap_over = FALSE
    /\ mm_pc = "none"
    /\ mm_n = 0
    /\ mm_current = 0
    /\ mm_header = 0
    /\ mm_attempt = 0
    /\ mm_last_error = "None"
    /\ mm_start = 0
    /\ mm_sent = <<>>
    /\ dl_store = [r \in DlRepos |-> NoRow]
    /\ dl_before = [r \in DlRepos |-> NoRow]
    /\ dl_marked = {}

AgentStep ==
    \/ \E resume \in BOOLEAN, force_fresh \in BOOLEAN : Start(resume, force_fresh)
    \/ QueryHead
    \/ StreamNext
    \/ GotItem
    \/ SaveBatchProgressOpen
    \/ SaveBatchProgressDump
    \/ ShutdownSave
    \/ CheckpointSaveOpen
    \/ CheckpointSaveDump
    \/ AfterStream
    \/ ProcessBatchFetch
    \/ ProcessBatchClassify
    \/ ProcessBatchPersist
    \/ PostFull
    \/ PostRest
    \/ QueryIncr
    \/ Finally
    \/ Cleanup
    \/ Signal
    \/ Kill

NextAgent == AgentStep

SpecAgent == Init /\ [][NextAgent]_vars

ScrapeStep ==
    \/ CsStart
    \/ CsLoopStep
    \/ CsMarkProcessed
    \/ CsSaveDump
    \/ CsBatchInsert
    \/ CsCrash

NextScrape == ScrapeStep

SpecScrape == Init /\ [][NextScrape]_vars

RateStep ==
    \/ \E token \in BOOLEAN : RlConstruct(token)
    \/ \E c \in Callers : RlCall(c)
    \/ \E c \in Callers : RlEnter(c)
    \/ \E c \in Callers : RlProbeResponse(c)
    \/ \E c \in Callers : RlWake(c)
    \/ \E c \in Callers : RlClose(c)
    \/ ApiChange

NextRate == RateStep

SpecRate == Init /\ [][NextRate]_vars

\* The event loop runs every task that can run: each step of a caller that is
\* enabled is eventually taken.  New calls and quota changes are not forced.
FairSpecRate ==
    /\ SpecRate
    /\ \A c \in Callers :
         /\ WF_vars(RlEnter(c))
         /\ WF_vars(RlProbeResponse(c))
         /\ WF_vars(RlWake(c))
         /\ WF_vars(RlClose(c))

\* Part D: save with any arguments, then load.
CkptStep ==
    \/ \E ps \in SUBSET CpRepos :
         \E sp \in [QuerySet -> 0..MaxStartPage] :
           \E query_idx \in 0..Len(queries) : CpSaveOpen(ps, sp, query_idx)
    \/ CpSaveDump
    \/ CpLoad

NextCkpt == CkptStep

SpecCkpt == Init /\ [][NextCkpt]_vars

\* Part E: any file, then load.
LoadStep ==
    \/ \E f \in LdFiles : LdWrite(f)
    \/ LdLoad

NextLoad == LoadStep

SpecLoad == Init /\ [][NextLoad]_vars

\* Part F: a stream for any query, start page and cap, consumed to its end.
DiscoverStep ==
    \/ \E q \in DOMAIN SearchPages :
         \E p \in 1..(MaxStartPage + 1) :
           \E cap \in 0..MaxCap : DsStart(q, p, cap)
    \/ DsResume
    \/ \E resp \in Responses : FjAttempt(resp)

NextDiscover == DiscoverStep

SpecDiscover == Init /\ [][NextDiscover]_vars

\* Part G: the theme scraper is started, runs, is signalled.
ThemeStep ==
    \/ \E resume \in BOOLEAN : TmStart(resume)
    \/ TmQueryHead
    \/ TmStreamNext
    \/ TmGotItem
    \/ TmProcessFull
    \/ TmSaveInLoop
    \/ TmAfterStream
    \/ TmFinally
    \/ TmSignal

NextTheme == ThemeStep

SpecTheme == Init /\ [][NextTheme]_vars

\* Part H: batches of any size are enriched, the tasks interleaving freely.
EnrichStep ==
    \/ \E n \in 0..MaxBatch : EnProcessBatch(n)
    \/ \E t \in EnTasks : EnAcquire(t)
    \/ \E t \in EnTasks : \E outcome \in {"tex", "no_tex", "raise"} :
          EnContents(t, outcome)
    \/ \E t \in EnTasks : EnDownload(t)
    \/ EnGather

NextEnrich == EnrichStep

SpecEnrich == Init /\ [][NextEnrich]_vars

\* Part I: the pipeline is started in either mode and runs its rounds.
PipelineStep ==
    \/ \E free \in BOOLEAN : ApMain(free)
    \/ \E fetched \in SUBSET ApRepos : ApCoreScrape(fetched)
    \/ \E unprocessed \in SUBSET ApRepos :
         \E first \in FirstAnswers : \E second \in SecondAnswers :
           \E content \in Contents : \E cost \in 0..MaxUsage :
              ApAgentProcess(unprocessed, first, second, content, cost)

NextPipeline == PipelineStep

SpecPipeline == Init /\ [][NextPipeline]_vars

\* Part J: a client is built from any key list and called again and again.
MinimaxStep ==
    \/ \E api_keys \in KeyLists : MmInit(api_keys)
    \/ MmCall
    \/ \E resp \in MmResponses : MmAttempt(resp)

NextMinimax == MinimaxStep

SpecMinimax == Init /\ [][NextMinimax]_vars

\* Part K: rows are scraped, and download_templates runs with any outcome
\* of its downloads.
DownloadStep ==
    \/ \E r \in DlRepos : \E row \in ScrapedRows : DlStore(r, row)
    \/ \E ok \in SUBSET DlRepos : DownloadTemplates(ok)

NextDownload == DownloadStep

SpecDownload == Init /\ [][NextDownload]_vars

Next ==
    NextAgent \/ NextScrape \/ NextRate \/ NextCkpt \/ NextLoad
        \/ NextDiscover \/ NextTheme \/ NextEnrich \/ NextPipeline
        \/ NextMinimax \/ NextDownload

Spec == Init /\ [][Next]_vars


(***************************************************************************)
(* Properties                                                              *)
(***************************************************************************)

\* C1: when run has returned after leaving the query loop early (shutdown
\* signal or exception) while at query index i, the checkpoint file records
\* query index i.
C1_CheckpointRecordsStopIndex ==
    (pc = "done" /\ stopIdx # -1) =>
        (ckpt.st = "ok" /\ ckpt.query_idx = stopIdx)

\* An id is recoverable by the next resumed run when the temp batch file
\* still holds it, or when the checkpoint lets discovery reach it again: it is
\* not marked processed and a query at or after the saved index returns it on
\* a page at or after that query's saved page.
Recoverable(id) ==
    \/ id \in Range(LoadBatchProgress(tempFile))
    \/ LET l == CheckpointLoad(ckpt)
       IN /\ id \notin l.processed
          /\ \E k \in (l.query_idx + 1)..Len(queries) :
               \E p \in StartPage(l.start_pages, queries[k])
                          ..Len(SearchPages[queries[k]]) :
                  id \in Range(Search(queries[k], p))

\* C2: when run has returned after a shutdown signal, every candidate of the
\* batch that was being accumulated is either in the Store and marked
\* processed in the checkpoint, or recoverable by the next resumed run.
C2_InflightBatchKept ==
    (pc = "done" /\ shutdown_flag) =>
        \A id \in inflight :
            \/ (store[id] # "absent" /\ id \in CheckpointLoad(ckpt).processed)
            \/ Recoverable(id)

\* C3: a run restarted with resume=True after a kill hands no identifier to
\* _process_batch that was in the checkpoint file's processed set at the kill.
C3_NoReprocessAfterKill ==
    resumedAfterKill => (enriched \cap killCkpt = {})

\* C4: no batch handed to _process_batch contains an identifier that is in
\* the processed set at the hand-off.
C4_NoProcessedInBatch ==
    pc = "pb_fetch" => (Range(batch) \cap processed = {})

\* C5: every candidate of a batch that _process_batch has returned for has a
\* row in the Store, also when its content fetch raised.
C5_ProcessedBatchStored ==
    \A id \in done_ids : store[id] # "absent"

\* C5, witness: no shutdown was requested, a batch has been processed in
\* which a content fetch raised, and that candidate has its row.
C5_Witness ==
    /\ ~shutdown_flag
    /\ \E id \in fetch_failed : id \in done_ids /\ store[id] # "absent"

\* C6: the identifiers the checkpoint file records as processed and the raw
\* Store lacks number at most one batch.
C6_CheckpointStoreGap ==
    Cardinality(CsLoad(cs_file) \ cs_raw) <= CS_BATCH_SIZE

\* C7: while the real quota stays below the pause threshold, no more than
\* poll_interval calls in a row go through without a suspension (calls whose
\* probe failed are not counted).
C7_SuspendedWithinPollInterval ==
    rl_low_calls <= poll_interval

\* C8: provided the real quota is healthy from some time on, a caller that
\* sleeps in check_and_wait later returns to its caller.
C8_SleeperReturns ==
    (<>[](api_remaining >= PauseBelow)) =>
        \A c \in Callers : (rl_pc[c] = "sleeping") ~> (rl_pc[c] = "idle")

\* C9: at most one quota probe request is in flight at any time.
C9_OneProbeInFlight ==
    Cardinality({c \in Callers : rl_pc[c] = "probing"}) <= 1

\* C9, witness: a probe is in flight while another caller waits for the lock.
C9_Witness ==
    \E c, d \in Callers :
        c # d /\ rl_pc[c] = "probing" /\ rl_pc[d] = "acquire"

\* C10: a call whose probe raised leaves the cached remaining and
\* reset_timestamp as they were and goes on to return without sleeping.
C10_ProbeErrorReturns ==
    [][\A c \in Callers :
          /\ (rl_pc[c] = "probing" /\ rl_probe'[c] = "error") =>
                /\ rl_remaining' = rl_remaining
                /\ rl_reset_timestamp' = rl_reset_timestamp
                /\ rl_pc'[c] = "closing"
          /\ (rl_pc[c] = "closing" /\ rl_probe[c] = "error") =>
                /\ rl_remaining' = rl_remaining
                /\ rl_reset_timestamp' = rl_reset_timestamp
                /\ rl_pc'[c] \in {"closing", "idle"}
                /\ ~rl_slept'[c]]_vars

\* C10, witness: a call whose probe raised while the real quota was low has
\* returned, and the cache differs from what the API would have reported.
C10_Witness ==
    \E c \in Callers :
        /\ rl_probe[c] = "error"
        /\ rl_pc[c] = "idle"
        /\ ~rl_slept[c]
        /\ api_remaining < PauseBelow
        /\ rl_remaining # api_remaining

\* C13: the checkpoint file never holds an empty or partially written state:
\* at every instant it is absent or holds one completely saved state.
C13_CheckpointNeverPartial ==
    ckpt.st # "partial"

\* C16: when run has returned without a shutdown signal, without an exception
\* and without a failed page request, no query's discovery ended with results
\* left at the endpoint unless the candidates yielded in the run reached
\* max_repos.
C16_DiscoveryEndsExhaustedOrBudget ==
    (pc = "done" /\ ~shutdown_flag /\ stopIdx = -1 /\ ~disc.quiet) =>
        (disc.capped = {} \/ disc.yielded >= MAX_REPOS)

StoredStatuses == {"scraped_valid", "scraped_invalid"}

\* C18: a candidate whose enrichment failed is stored with a status other
\* than those of successfully enriched records: the row of a repository
\* without content has such a status, and so has every entry whose fetch
\* raised when the batch reaches the database write.
C18_FailedEnrichmentMarked ==
    /\ \A r \in Repos :
          (store[r] # "absent" /\ RepoContent[r] = "no_tex") =>
              store[r] \notin StoredStatuses
    /\ pc = "pb_persist" =>
          \A i \in 1..Len(entries) :
              entries[i].fetch_error =>
                  entries[i].processing_status \notin StoredStatuses

\* C19: with AI enabled, whatever the AI call does, the classified batch that
\* goes to the Store holds one record per input entry, in input order, each
\* with its entry's identifier and enriched fields.
C19_FallbackKeepsEntries ==
    [][(use_ai /\ pc = "pb_classify" /\ pc' = "pb_persist") =>
          /\ Len(entries') = Len(entries)
          /\ \A i \in 1..Len(entries) :
                entries'[i] = [entries[i] EXCEPT
                                 !.processing_status = StatusOf(entries[i])]
      ]_vars

\* C20: when _process_batch is left, by return or by exception, run stays in
\* its query loop: it does not go to the end of the run.
C20_BatchFailureIsolated ==
    [][(pc = "pb_persist" /\ pc' \notin {"pb_persist", "dead"}) =>
          pc' # "finally"]_vars

\* C11: load after save returns the processed set, the start_pages mapping and
\* the query_idx that were saved.
C11_SaveLoadRoundTrip ==
    cp_pc = "loaded" => cp_out = cp_in

\* C11, witness: a load after the save of two identifiers, listed in another
\* order than the agent's, a start page for each query and a positive query
\* index.
C11_Witness ==
    /\ cp_pc = "loaded"
    /\ cp_file.st = "ok"
    /\ Cardinality(cp_in.processed) >= 2
    /\ cp_file.processed # ListOf(cp_in.processed)
    /\ \A q \in QuerySet : cp_in.start_pages[q] >= 1
    /\ cp_in.query_idx >= 1

\* C12: load of main.py's CheckpointManager never raises and returns a state
\* whose processed_repos is a set, whatever the checkpoint file holds.
C12_LoadNeverRaises ==
    ld_pc = "loaded" => (~ld_out.raised /\ ld_out.is_set)

RECURSIVE PagesFrom(_, _)
\* The items of the pages p, p+1, ... of query q up to the first page without
\* items, in page order.
PagesFrom(q, p) ==
    IF Search(q, p) = <<>> THEN <<>>
    ELSE Search(q, p) \o PagesFrom(q, p + 1)

\* The first n items of s.
Take(s, n) == SubSeq(s, 1, IF n < Len(s) THEN n ELSE Len(s))

\* C15: while every page request is answered, the stream has yielded a
\* prefix of the items of pages p, p+1, ... up to the first empty page, cut
\* to max_repos items, and when it has ended it has yielded all of them.
C15_StreamYieldsPagesUpToCap ==
    LET expected == Take(PagesFrom(ds_query, ds_start), ds_cap)
    IN ds_clean =>
          /\ Len(ds_yielded) <= Len(expected)
          /\ ds_yielded = SubSeq(expected, 1, Len(ds_yielded))
          /\ ds_pc = "ended" => ds_yielded = expected
          /\ ds_pc # "raised"

\* C15, witness: a stream that crossed a page boundary and was ended by its
\* cap in the middle of a page.
C15_Witness ==
    /\ ds_pc = "ended"
    /\ ds_clean
    /\ ds_g.page > ds_start
    /\ ds_g.idx < Len(ds_g.items)
    /\ Len(ds_yielded) = ds_cap

\* C17: a _fetch_json call whose last attempt met a transient network error
\* or a timeout has made three attempts when it is over.
C17_TransientRetried ==
    (ds_pc # "fetching" /\ fj_resp \in Transient) =>
        fj_attempts = RetryAttempts

\* C14: unless a signal arrives, the step that ends the checkpoint save of
\* the query loop, whether save wrote the file or raised, takes run to the
\* next item of the stream, and the step of the finally block does not end
\* the run with an exception of save.
C14_SaveFailureTolerated ==
    [][/\ (tm_pc = "save" /\ ~tm_shutdown') => tm_pc' \in {"save", "next"}
       /\ tm_pc = "finally" => tm_result' # "raised"]_vars

\* C21: a 403 answer to a discovery page request does not end the run: the
\* step of the stream in which a page request is answered 403 does not leave
\* the query loop for the finally block.
C21_RateLimitDoesNotEndRun ==
    [][(pc = "next" /\ ~disc.limited /\ disc'.limited) => pc' # "finally"]_vars

\* C22: when the Store write of a batch has failed and run has returned, none
\* of the batch's ids is in the processed set or in the checkpoint file, and
\* each of them can be reached again by the next resumed run.
C22_FailedWriteBatchStaysEligible ==
    (pc = "done" /\ disc.write_failed # {}) =>
        \A id \in disc.write_failed :
            /\ id \notin processed
            /\ id \notin CheckpointLoad(ckpt).processed
            /\ Recoverable(id)

\* C23: a run started with force_fresh=True starts with an empty processed
\* set, empty page cursors and query index 0, and the batch its first query
\* starts with is empty, whatever the files hold.
C23_ForceFreshStartsEmpty ==
    [][/\ (pc \in {"idle", "done", "dead"} /\ pc' = "q_head" /\ disc'.fresh) =>
              (processed' = {} /\ start_pages' = EmptyPages /\ q_idx' = 0)
       /\ (disc.fresh /\ pc = "q_head" /\ q_idx = 0 /\ pc' = "next") =>
              batch' = <<>>]_vars

\* C24: the page saved for a query in the checkpoint file is the next page to
\* fetch: every candidate on an earlier page of the query is in the
\* checkpoint's processed set (or in the batch-progress file the resumed run
\* starts from).
C24_SavedPageIsNextToFetch ==
    ckpt.st = "ok" =>
        LET l == CheckpointLoad(ckpt)
        IN \A k \in 1..Len(queries) :
             \A p \in 1..(StartPage(l.start_pages, queries[k]) - 1) :
                Range(Search(queries[k], p)) \subseteq
                    (l.processed \cup Range(LoadBatchProgress(tempFile)))

\* C25: batches are classified and persisted one after the other: while a
\* batch is being classified or written, every id of the batches enriched
\* before it in this run has its row in the Store and is in the processed set.
C25_BatchesSequential ==
    pc \in {"pb_classify", "pb_persist"} =>
        \A id \in enriched \ Range(batch) :
            id \in processed /\ store[id] # "absent"

\* C25, witness: a second batch of the run is being classified.
C25_Witness ==
    pc = "pb_classify" /\ enriched \ Range(batch) # {}

\* C26: for any batch size, at no time are more than MAX_CONCURRENT
\* enrichment tasks inside their fetch section.
C26_AtMostMaxConcurrentFetching ==
    Cardinality({t \in EnTasks : en_task[t] \in EnInside}) <= MAX_CONCURRENT

\* C26, witness: a batch larger than MAX_CONCURRENT with MAX_CONCURRENT tasks
\* inside the fetch section and another one held at the semaphore.
C26_Witness ==
    /\ Cardinality({t \in EnTasks : en_task[t] \in EnInside}) = MAX_CONCURRENT
    /\ \E t \in EnTasks : en_task[t] = "new"

\* C27: when agent_process has returned, every raw row query_unprocessed
\* selected for the AI batch is marked 'processed' in the raw Store and has a
\* row in the enhanced Store, whatever the AI answered.
C27_SelectedAllProcessed ==
    ap_result = "returned" =>
        \A r \in ap_unprocessed :
            ap_raw[r] = "processed" /\ ap_enhanced[r] # "absent"

\* C29: in non-free mode, once total_cost exceeds the budget the process has
\* ended with add_cost's exception, and no chat-completion request was issued
\* while total_cost exceeded the budget.
C29_NoRequestOverBudget ==
    ~ap_free =>
        /\ total_cost > budget => ap_pc = "exited"
        /\ ~ap_over

\* C29, witness: the budget was exceeded in a round before the last one, and
\* the process ended there.
C29_Witness ==
    /\ ~ap_free
    /\ total_cost > budget
    /\ ap_pc = "exited"
    /\ ap_round < MaxRounds

\* C28: a call never makes more than n attempts, and a call whose attempts
\* all failed has made exactly n attempts, the i-th with the i-th key of the
\* cycle counted from the key that was current when the call began (so each
\* with a different entry of the key list), and has raised.
C28_AllKeysTriedOnceThenRaise ==
    /\ Len(mm_sent) <= mm_n
    /\ mm_pc = "loop" => mm_attempt < mm_n
    /\ mm_pc = "raised" =>
          /\ Len(mm_sent) = mm_n
          /\ \A i \in 1..mm_n : mm_sent[i] = (mm_start + i - 1) % mm_n
          /\ \A i, j \in 1..mm_n : i # j => mm_sent[i] # mm_sent[j]

\* C28, witness: a call of a client with several keys that began at a key
\* other than the first has raised.
C28_Witness ==
    mm_pc = "raised" /\ mm_n >= 2 /\ mm_start # 0

\* C30: marking a repository as downloaded leaves the other stored fields of
\* its row (description, stars, category, is_valid, AI fields) as they were
\* when download_templates began.
C30_DownloadKeepsOtherFields ==
    \A r \in dl_marked :
        \A f \in DlFields \ {"processing_status"} :
            dl_store[r][f] = dl_before[r][f]

====
